---- MODULE Spec2Model ----
(***************************************************************************)
(* CreatorPulse: the shared backend handle (supabase_client.py), the       *)
(* persistence layer (models.py), the feedback and review-timer calls      *)
(* (feedback_system.py) and the two schedulers (app.py,                    *)
(* scheduler_service.py), as state machines.                               *)
(***************************************************************************)
EXTENDS Integers, Sequences, FiniteSets, TLC

\* ------------------------------------------------------------------ bounds
MaxHandles == 2      \* create_client successes in one behaviour
MaxRows == 2         \* rows ever inserted into one table
MaxTicks == 1        \* due-checks a scheduler runs in one behaviour
MaxThreads == 3      \* scheduler threads started in one behaviour
MaxClock == 300      \* seconds of wall-clock time followed after midnight
MaxSubmits == 2      \* form submissions in one behaviour
MaxWall == 3         \* minutes of wall-clock time a review is followed for
MaxCalls == 4        \* start_review_timer / stop_review_timer calls in one behaviour
MaxEdits == 2        \* edit_history rows of the draft
MaxText == 5         \* characters of an original or edited text
MaxArticles == 2     \* articles passed to one generation, and its max_articles
MaxList == 3         \* articles in one list given to remove_duplicate_articles
MaxWords == 4        \* words in the joined titles and summaries given to extract_trends
MaxTrends == 2       \* the largest max_trends asked of extract_trends
MaxLines == 7        \* lines of the text the LLM returns for a thread
MaxMetrics == 4      \* newsletter_metrics rows of one user in the window

\* --------------------------------------------------------------- constants
SleepSeconds == 30   \* time.sleep(30) between two run_pending calls
EveryMinutes == 1    \* schedule.every(1).minutes

\* ------------------------------------------------------------------ values
Users == {"A", "B"}
\* the callers of get_supabase_client in one dashboard process: auth.py:5 and
\* app.py:35 on a script thread, app.py:166 on a scheduler thread
Callers == {"auth", "ui", "scheduler"}
None == <<>>                      \* Python's None; a handle is <<n>>, the n-th built
NoRaise == "none"
NoUser == ""                      \* a missing or empty user_id (falsy)
\* the browser sessions attached to the dashboard process, and a session that
\* has not run the script yet
Sessions == {"s1", "s2"}
NoSession == [attached |-> FALSE, keys |-> {}, user |-> NoUser]
\* the (newsletter_id, user_id) pairs a review timer can be kept for, and the
\* newsletter the timer functions are called with when called on their own
Pairs == (1..MaxRows) \X Users
Reviewed == {1}
NoPair == <<0, NoUser>>
NoHist == [started_at |-> None, stops |-> 0]
NoCall == [no |-> 0, op |-> "none", pair |-> NoPair, started |-> FALSE,
           duration |-> None, failed |-> FALSE]
NoStart == [pc |-> "idle", pair |-> NoPair, existing |-> FALSE]
NoEdit == [fn |-> "none", original |-> <<>>, edited |-> <<>>, edit_ratio |-> 0,
           similarity_ratio |-> 0]
NoDraft == [called |-> FALSE]
NoResult == [fn |-> "none"]
NoJobs == [now |-> 0, jobs |-> {}, delivered |-> {}]
NoEditor == [session |-> None, stored |-> None, edits |-> 0,
             delivered |-> [preview |-> None, dashboard |-> None]]
NoPreview == [generated_newsletter |-> FALSE, current_newsletter_id |-> None,
              review_timer_started |-> FALSE, closed |-> {},
              start_failed |-> {}]

VARIABLES
    SUPABASE_URL,     \* supabase_client.py:9, TRUE when the variable is set
    SUPABASE_KEY,     \* supabase_client.py:10
    supabase,         \* supabase_client.py:13, the module-level handle
    created,          \* number of handles create_client has built
    newsletters,      \* table newsletters: rows [id, user_id, status]
    user_sources,     \* table user_sources: rows [id, user_id, active]
    user_preferences, \* table user_preferences: rows [user_id, tone]
    nextId,           \* newsletters ids the backend has handed out so far
    nextSrc,          \* user_sources ids handed out so far
    ret,              \* outcome of the last call: [op, user, raised, value]
    got,              \* per caller, the handle its last get_supabase_client gave
    tpc,              \* per caller, its position inside get_supabase_client
    scheduled_deliveries, \* table scheduled_deliveries, one row per user_id
    sends,            \* the deliveries attempted:
                      \*   [newsletter_id, user_id, tick, channel, ok]
    update_errors,    \* the backend updates that failed after a delivery:
                      \*   [newsletter_id, table]
    tick,             \* the scheduler's due-check: where it is and what it did
    session_state,    \* per browser session, its st.session_state
    scheduler_threads, \* the background_scheduler threads alive in the process
    session_flags,    \* the confirm_delete_i / confirm_remove_i keys of the
                      \*   signed-in session's st.session_state
    clicked,          \* the items whose Delete/Remove button has been clicked
    clock,            \* seconds since midnight, as a scheduler loop sees them
    next_run,         \* the registered job's next_run
    lpc,              \* the scheduler loop's position
    observed,         \* the minutes a due-check has read as current_time
    latest_save,      \* per user, the payload of the latest successful save of
                      \*   the scheduler form
    form,             \* the last form submission: its number, its form and
                      \*   whether its fields were well-formed
    auth_calls,       \* the sign_in / sign_up calls made so far
    review_timers,    \* the rows of the review_timers table
    nextTimer,        \* the id the table gives the next inserted row
    wall,             \* datetime.now(), in minutes
    timer_hist,       \* per (newsletter, user): when its timer was last started
                      \*   and how many stops have returned a duration
    timer_ret,        \* the last start / stop call and what it returned
    tcall,            \* per session, a start_review_timer call between its
                      \*   select and its write
    preview,          \* the preview panel's keys of st.session_state and the
                      \*   drafts a terminal action was taken on
    edit,             \* the last calculate_diff_summary / calculate_edit_metrics
                      \*   call: its texts and the ratios it returned
    draft,            \* the last generate_newsletter_with_ai call: its articles,
                      \*   the LLM calls that failed and what it produced
    shared,           \* the process-wide job list of the schedule library, the
                      \*   wall clock and the newsletters delivered per minute
    principal,        \* the auth session held by the handle auth.py shares
    editor,           \* the draft's text in the session and in the stored row
    result            \* the last call of a function of content_aggregator.py,
                      \*   social_media_generator.py or the engagement analytics:
                      \*   [fn, its arguments, what it returned]

clientVars == <<SUPABASE_URL, SUPABASE_KEY, supabase, created>>
tableVars == <<newsletters, user_sources, user_preferences, nextId, nextSrc>>
storeVars == <<clientVars, tableVars, ret, got>>
raceVars == <<tpc>>
schedVars == <<scheduled_deliveries, sends, update_errors, tick>>
procVars == <<session_state, scheduler_threads>>
uiVars == <<session_flags, clicked>>
cadVars == <<clock, next_run, lpc, observed>>
formVars == <<latest_save, form, auth_calls>>
timerVars == <<review_timers, nextTimer, wall, timer_hist, timer_ret, tcall>>
pureVars == <<edit, draft, result>>
lateVars == <<shared, principal, editor>>
reviewVars == <<timerVars, preview, pureVars, lateVars>>
otherVars == <<procVars, uiVars, cadVars, formVars, reviewVars>>
nonStoreVars == <<raceVars, schedVars, otherVars>>
vars == <<storeVars, nonStoreVars>>

\* ------------------------------------------------- supabase_client.py
\* get_supabase_client with the module state passed in: held is the global,
\* throws says whether create_client raises this time, n counts the handles built.
get_always_creates(held, url, key, throws, n) ==
    IF url /\ key
    THEN IF throws
         THEN [supabase |-> None, created |-> n, raised |-> "Exception", value |-> None]
         ELSE [supabase |-> <<n + 1>>, created |-> n + 1, raised |-> NoRaise,
               value |-> <<n + 1>>]
    ELSE [supabase |-> held, created |-> n, raised |-> "ValueError", value |-> None]

get_supabase_client(held, url, key, throws, n) ==
    IF held = None
    THEN IF url /\ key
         THEN IF throws
              THEN [supabase |-> None, created |-> n, raised |-> "Exception",
                    value |-> None]
              ELSE [supabase |-> <<n + 1>>, created |-> n + 1, raised |-> NoRaise,
                    value |-> <<n + 1>>]
         ELSE [supabase |-> None, created |-> n, raised |-> "ValueError",
               value |-> None]
    ELSE [supabase |-> held, created |-> n, raised |-> NoRaise, value |-> held]

reset_supabase_client(held) == None

\* The handle a caller gets in the current state.
Client(throws) ==
    get_supabase_client(supabase, SUPABASE_URL, SUPABASE_KEY, throws, created)

GetClient ==
    \E t \in Callers, throws \in BOOLEAN :
        LET c == Client(throws) IN
        /\ c.created <= MaxHandles
        /\ supabase' = c.supabase
        /\ created' = c.created
        /\ ret' = [op |-> "get", user |-> t, raised |-> c.raised, value |-> c.value,
                   failed |-> c.raised # NoRaise]
        /\ got' = [got EXCEPT ![t] = c.value]
        /\ UNCHANGED <<SUPABASE_URL, SUPABASE_KEY, tableVars, nonStoreVars>>

ResetClient ==
    /\ supabase' = reset_supabase_client(supabase)
    /\ ret' = [op |-> "reset", user |-> "-", raised |-> NoRaise, value |-> None,
               failed |-> FALSE]
    /\ UNCHANGED <<SUPABASE_URL, SUPABASE_KEY, created, tableVars, got, nonStoreVars>>

\* ------------------------------------------------------------ models.py
\* Every operation takes c, the outcome of its get_supabase_client() call, the
\* table, its arguments, and fail: whether the backend call (execute) raises.
\* It yields [rows, raised, value]: the table afterwards, the exception that
\* leaves the function (NoRaise when it returns) and the returned value.
Statuses == {"draft", "accepted", "sent"}

MaxId(S) == CHOOSE i \in {r.id : r \in S} : \A r \in S : r.id <= i

\* order("created_at", desc=True): ids grow with creation time
RECURSIVE OrderDesc(_)
OrderDesc(S) ==
    IF S = {} THEN <<>>
    ELSE LET top == CHOOSE r \in S : r.id = MaxId(S)
         IN <<top>> \o OrderDesc(S \ {top})

Some(v) == <<v>>                  \* a value that is not None

\* failed: the handle could not be obtained or the backend call raised
Raised(c, rows) ==
    [rows |-> rows, raised |-> c.raised, value |-> None, failed |-> TRUE]
Failed(rows, v) == [rows |-> rows, raised |-> NoRaise, value |-> v, failed |-> TRUE]
Returned(rows, v) == [rows |-> rows, raised |-> NoRaise, value |-> v, failed |-> FALSE]

fetch_newsletters(c, rows, user_id, fail) ==
    IF c.raised # NoRaise THEN Raised(c, rows)
    ELSE IF c.value = None THEN Returned(rows, <<>>)
    ELSE IF fail THEN Failed(rows, <<>>)
    ELSE Returned(rows, OrderDesc({r \in rows : r.user_id = user_id}))

\* a save that hands back an id although nothing was stored
save_reports_unsaved(c, rows, data, fail, id) ==
    IF c.raised # NoRaise THEN Raised(c, rows)
    ELSE IF c.value = None THEN Returned(rows, None)
    ELSE IF data.user_id = NoUser THEN Returned(rows, None)
    ELSE IF fail THEN Failed(rows, Some(id))
    ELSE Returned(rows \cup {[id |-> id, user_id |-> data.user_id,
                              status |-> data.status]}, Some(id))

save_newsletter(c, rows, data, fail, id) ==
    IF c.raised # NoRaise THEN Raised(c, rows)
    ELSE IF c.value = None THEN Returned(rows, None)
    ELSE IF data.user_id = NoUser THEN Returned(rows, None)
    ELSE IF fail THEN Failed(rows, None)
    ELSE Returned(rows \cup {[id |-> id, user_id |-> data.user_id,
                              status |-> data.status]}, Some(id))

update_newsletter(c, rows, newsletter_id, updates, user_id, fail) ==
    IF c.raised # NoRaise THEN Raised(c, rows)
    ELSE IF c.value = None THEN Returned(rows, FALSE)
    ELSE IF fail THEN Failed(rows, FALSE)
    ELSE LET hit == {r \in rows : r.id = newsletter_id /\ r.user_id = user_id}
         IN Returned((rows \ hit) \cup {[r EXCEPT !.status = updates] : r \in hit},
                     hit # {})

delete_newsletter(c, rows, newsletter_id, user_id, fail) ==
    IF c.raised # NoRaise THEN Raised(c, rows)
    ELSE IF c.value = None THEN Returned(rows, FALSE)
    ELSE IF fail THEN Failed(rows, FALSE)
    ELSE LET hit == {r \in rows : r.id = newsletter_id /\ r.user_id = user_id}
         IN Returned(rows \ hit, hit # {})

\* .single() raises when no row matches; the except turns that into None
get_newsletter_by_id(c, rows, newsletter_id, user_id, fail) ==
    IF c.raised # NoRaise THEN Raised(c, rows)
    ELSE IF c.value = None THEN Returned(rows, None)
    ELSE IF fail THEN Failed(rows, None)
    ELSE LET hit == {r \in rows : r.id = newsletter_id /\ r.user_id = user_id}
         IN IF hit = {} THEN Returned(rows, None)
            ELSE Returned(rows, Some(CHOOSE r \in hit : TRUE))

save_user_sources(c, rows, source_data, fail, id) ==
    IF c.raised # NoRaise THEN Raised(c, rows)
    ELSE IF c.value = None THEN Returned(rows, FALSE)
    ELSE IF fail THEN Failed(rows, FALSE)
    ELSE Returned(rows \cup {[id |-> id, user_id |-> source_data.user_id,
                              active |-> source_data.active]}, TRUE)

get_user_sources(c, rows, user_id, fail) ==
    IF c.raised # NoRaise THEN Raised(c, rows)
    ELSE IF c.value = None THEN Returned(rows, <<>>)
    ELSE IF fail THEN Failed(rows, <<>>)
    ELSE Returned(rows, OrderDesc({r \in rows : r.user_id = user_id /\ r.active}))

update_user_source(c, rows, source_id, updates, user_id, fail) ==
    IF c.raised # NoRaise THEN Raised(c, rows)
    ELSE IF c.value = None THEN Returned(rows, FALSE)
    ELSE IF fail THEN Failed(rows, FALSE)
    ELSE LET hit == {r \in rows : r.id = source_id /\ r.user_id = user_id}
         IN Returned((rows \ hit) \cup {[r EXCEPT !.active = updates] : r \in hit},
                     hit # {})

\* the only operation that obtains the handle inside its try block
delete_user_source(c, rows, source_id, user_id, fail) ==
    IF c.raised # NoRaise THEN Failed(rows, FALSE)
    ELSE IF fail THEN Failed(rows, FALSE)
    ELSE LET hit == {r \in rows : r.id = source_id /\ r.user_id = user_id}
         IN Returned(rows \ hit, hit # {})

\* upsert on the table's key, user_id
save_user_preferences(c, rows, user_id, preferences, fail) ==
    IF c.raised # NoRaise THEN Raised(c, rows)
    ELSE IF c.value = None THEN Returned(rows, FALSE)
    ELSE IF fail THEN Failed(rows, FALSE)
    ELSE Returned({r \in rows : r.user_id # user_id}
                  \cup {[user_id |-> user_id, tone |-> preferences]}, TRUE)

get_user_preferences(c, rows, user_id, fail) ==
    IF c.raised # NoRaise THEN Raised(c, rows)
    ELSE IF c.value = None THEN Returned(rows, None)
    ELSE IF fail THEN Failed(rows, None)
    ELSE LET hit == {r \in rows : r.user_id = user_id}
         IN IF hit = {} THEN Returned(rows, None)
            ELSE Returned(rows, Some(CHOOSE r \in hit : TRUE))

Count(seq, P(_)) == Cardinality({i \in 1..Len(seq) : P(seq[i])})
IsDraft(n) == n.status = "draft"
IsPublished(n) == n.status = "published"
IsActive(s) == s.active

\* c is the function's own get_supabase_client() call, outside its try; cn and
\* cs are the calls fetch_newsletters and get_user_sources make, inside it.
get_user_stats(c, cn, cs, news, srcs, user_id, failN, failS) ==
    IF c.raised # NoRaise THEN Raised(c, news)
    ELSE IF c.value = None THEN Returned(news, None)
    ELSE LET n == fetch_newsletters(cn, news, user_id, failN)
             s == get_user_sources(cs, srcs, user_id, failS)
         IN IF n.raised # NoRaise \/ s.raised # NoRaise THEN Failed(news, None)
            ELSE Returned(news,
                     Some([total_newsletters |-> Len(n.value),
                           draft_newsletters |-> Count(n.value, IsDraft),
                           published_newsletters |-> Count(n.value, IsPublished),
                           total_sources |-> Len(s.value),
                           active_sources |-> Count(s.value, IsActive)]))

\* ---------------------------------------------------- feedback_system.py
Reactions == {"thumbs_up", "thumbs_down", "accepted", "rejected"}

\* The handle is obtained inside the try. failIns: the insert into
\* newsletter_feedback raises; failUpd: the update of newsletters raises.
\* The update filters on the newsletter id alone.
record_feedback(c, rows, newsletter_id, user_id, reaction, failIns, failUpd) ==
    IF c.raised # NoRaise THEN Failed(rows, FALSE)
    ELSE IF failIns THEN Failed(rows, FALSE)
    ELSE IF reaction \in {"accepted", "thumbs_up"}
    THEN IF failUpd THEN Failed(rows, FALSE)
         ELSE LET hit == {r \in rows : r.id = newsletter_id}
              IN Returned((rows \ hit)
                          \cup {[r EXCEPT !.status = "accepted"] : r \in hit}, TRUE)
    ELSE Returned(rows, TRUE)

\* ------------------------------------------------- the store's operations
\* One action per call: it obtains the handle as the function does, applies the
\* function to the table and records the outcome in ret.
Called(op, u, c, r) ==
    /\ c.created <= MaxHandles
    /\ supabase' = c.supabase
    /\ created' = c.created
    /\ ret' = [op |-> op, user |-> u, raised |-> r.raised, value |-> r.value,
               failed |-> r.failed]
    /\ UNCHANGED <<SUPABASE_URL, SUPABASE_KEY, got, nonStoreVars>>

FetchNewsletters ==
    \E u \in Users, throws \in BOOLEAN, fail \in BOOLEAN :
        LET c == Client(throws)
            r == fetch_newsletters(c, newsletters, u, fail)
        IN /\ Called("fetch_newsletters", u, c, r)
           /\ UNCHANGED tableVars

SaveNewsletter ==
    \E u \in Users \cup {NoUser}, throws \in BOOLEAN, fail \in BOOLEAN :
        LET c == Client(throws)
            r == save_newsletter(c, newsletters, [user_id |-> u, status |-> "draft"],
                                 fail, nextId + 1)
        IN /\ nextId < MaxRows
           /\ Called("save_newsletter", u, c, r)
           /\ newsletters' = r.rows
           /\ nextId' = IF r.rows = newsletters THEN nextId ELSE nextId + 1
           /\ UNCHANGED <<user_sources, user_preferences, nextSrc>>

UpdateNewsletter ==
    \E u \in Users, id \in 1..MaxRows, st \in Statuses, throws \in BOOLEAN,
       fail \in BOOLEAN :
        LET c == Client(throws)
            r == update_newsletter(c, newsletters, id, st, u, fail)
        IN /\ Called("update_newsletter", u, c, r)
           /\ newsletters' = r.rows
           /\ UNCHANGED <<user_sources, user_preferences, nextId, nextSrc>>

DeleteNewsletter ==
    \E u \in Users, id \in 1..MaxRows, throws \in BOOLEAN, fail \in BOOLEAN :
        LET c == Client(throws)
            r == delete_newsletter(c, newsletters, id, u, fail)
        IN /\ Called("delete_newsletter", u, c, r)
           /\ newsletters' = r.rows
           /\ UNCHANGED <<user_sources, user_preferences, nextId, nextSrc>>

GetNewsletterById ==
    \E u \in Users, id \in 1..MaxRows, throws \in BOOLEAN, fail \in BOOLEAN :
        LET c == Client(throws)
            r == get_newsletter_by_id(c, newsletters, id, u, fail)
        IN /\ Called("get_newsletter_by_id", u, c, r)
           /\ UNCHANGED tableVars

SaveUserSources ==
    \E u \in Users, throws \in BOOLEAN, fail \in BOOLEAN :
        LET c == Client(throws)
            r == save_user_sources(c, user_sources, [user_id |-> u, active |-> TRUE],
                                   fail, nextSrc + 1)
        IN /\ nextSrc < MaxRows
           /\ Called("save_user_sources", u, c, r)
           /\ user_sources' = r.rows
           /\ nextSrc' = IF r.rows = user_sources THEN nextSrc ELSE nextSrc + 1
           /\ UNCHANGED <<newsletters, user_preferences, nextId>>

GetUserSources ==
    \E u \in Users, throws \in BOOLEAN, fail \in BOOLEAN :
        LET c == Client(throws)
            r == get_user_sources(c, user_sources, u, fail)
        IN /\ Called("get_user_sources", u, c, r)
           /\ UNCHANGED tableVars

UpdateUserSource ==
    \E u \in Users, id \in 1..MaxRows, a \in BOOLEAN, throws \in BOOLEAN,
       fail \in BOOLEAN :
        LET c == Client(throws)
            r == update_user_source(c, user_sources, id, a, u, fail)
        IN /\ Called("update_user_source", u, c, r)
           /\ user_sources' = r.rows
           /\ UNCHANGED <<newsletters, user_preferences, nextId, nextSrc>>

DeleteUserSource ==
    \E u \in Users, id \in 1..MaxRows, throws \in BOOLEAN, fail \in BOOLEAN :
        LET c == Client(throws)
            r == delete_user_source(c, user_sources, id, u, fail)
        IN /\ Called("delete_user_source", u, c, r)
           /\ user_sources' = r.rows
           /\ UNCHANGED <<newsletters, user_preferences, nextId, nextSrc>>

Tones == {"Professional", "Casual"}

SaveUserPreferences ==
    \E u \in Users, t \in Tones, throws \in BOOLEAN, fail \in BOOLEAN :
        LET c == Client(throws)
            r == save_user_preferences(c, user_preferences, u, t, fail)
        IN /\ Called("save_user_preferences", u, c, r)
           /\ user_preferences' = r.rows
           /\ UNCHANGED <<newsletters, user_sources, nextId, nextSrc>>

GetUserPreferences ==
    \E u \in Users, throws \in BOOLEAN, fail \in BOOLEAN :
        LET c == Client(throws)
            r == get_user_preferences(c, user_preferences, u, fail)
        IN /\ Called("get_user_preferences", u, c, r)
           /\ UNCHANGED tableVars

\* Once the function's own call has returned a handle it is held, so the two
\* nested calls find it and build nothing.
GetUserStats ==
    \E u \in Users, throws \in BOOLEAN, failN \in BOOLEAN, failS \in BOOLEAN :
        LET c == Client(throws)
            cn == get_supabase_client(c.supabase, SUPABASE_URL, SUPABASE_KEY, throws,
                                      c.created)
            cs == get_supabase_client(cn.supabase, SUPABASE_URL, SUPABASE_KEY, throws,
                                      cn.created)
            r == get_user_stats(c, cn, cs, newsletters, user_sources, u, failN, failS)
        IN /\ Called("get_user_stats", u, IF c.raised = NoRaise THEN cs ELSE c, r)
           /\ UNCHANGED tableVars

RecordFeedback ==
    \E u \in Users, id \in 1..MaxRows, reaction \in Reactions, throws \in BOOLEAN,
       failIns \in BOOLEAN, failUpd \in BOOLEAN :
        LET c == Client(throws)
            r == record_feedback(c, newsletters, id, u, reaction, failIns, failUpd)
        IN /\ Called("record_feedback", u, c, r)
           /\ newsletters' = r.rows
           /\ UNCHANGED <<user_sources, user_preferences, nextId, nextSrc>>

StoreNext ==
    \/ ResetClient
    \/ FetchNewsletters \/ SaveNewsletter \/ UpdateNewsletter \/ DeleteNewsletter
    \/ GetNewsletterById \/ GetUserStats
    \/ RecordFeedback

SourcesNext ==
    \/ ResetClient
    \/ SaveUserSources \/ GetUserSources \/ UpdateUserSource \/ DeleteUserSource
    \/ SaveUserPreferences \/ GetUserPreferences

ClientNext == GetClient \/ ResetClient

\* --------------------------------------------------------- the schedulers
\* A text is the tuple of its characters; a column that is NULL in the backend
\* comes back as Python's None, which is no text.
Null == <<"NULL">>
Digits == <<"0", "1", "2", "3", "4", "5", "6", "7", "8", "9">>
TwoDigits(n) == <<Digits[(n \div 10) + 1], Digits[(n % 10) + 1]>>

\* t.strftime('%H:%M:%S') and datetime.now().strftime('%H:%M')
strftime_HMS(t) == TwoDigits(t.h) \o <<":">> \o TwoDigits(t.m) \o <<":">> \o TwoDigits(t.s)
strftime_HM(t) == TwoDigits(t.h) \o <<":">> \o TwoDigits(t.m)

\* text[:5]
Take5(text) == SubSeq(text, 1, IF Len(text) < 5 THEN Len(text) ELSE 5)

\* the wall-clock instants a due-check can run at, and the times of day the
\* scheduler form can store
Clock == {[h |-> 8, m |-> 0, s |-> 0], [h |-> 8, m |-> 0, s |-> 30],
          [h |-> 8, m |-> 1, s |-> 0]}
FormTimes == {[h |-> 8, m |-> 0, s |-> 0], [h |-> 8, m |-> 1, s |-> 30]}
Methods == {"email", "telegram", "both"}
Timezones == {"UTC", "Asia/Kolkata"}
DefaultTimezone == "Asia/Kolkata"   \* the form's choice when no schedule exists
NoForm == [no |-> 0, kind |-> "none", user |-> NoUser, well_formed |-> TRUE]
Schedulers == {"inproc", "standalone"}

IdleTick ==
    [pc |-> "idle", who |-> "none", no |-> 0, current_time |-> <<>>,
     response |-> <<>>, idx |-> 0, compared |-> {}, triggered |-> {},
     finished |-> {}, aborted |-> FALSE]

RowOf(u) == CHOOSE r \in scheduled_deliveries : r.user_id = u
HasRow(u) == \E r \in scheduled_deliveries : r.user_id = u

\* an insert that ignores the conflict on user_id
insert_schedule(rows, data, chat) ==
    rows \cup {[user_id |-> data.user_id,
                schedule_time |-> data.schedule_time,
                timezone |-> data.timezone,
                delivery_method |-> data.delivery_method,
                is_active |-> data.is_active,
                telegram_chat_id |-> chat,
                last_delivered_at |-> None]}

\* upsert(schedule_data, on_conflict="user_id"): the columns of the payload
\* replace the row's, the others keep their value (NULL in a new row)
upsert_schedule(rows, data, chat) ==
    LET old == {r \in rows : r.user_id = data.user_id}
        base == IF old = {}
                THEN [user_id |-> data.user_id, telegram_chat_id |-> Null,
                      last_delivered_at |-> None]
                ELSE CHOOSE r \in old : TRUE
    IN (rows \ old) \cup
       {[user_id |-> data.user_id,
         schedule_time |-> data.schedule_time,
         timezone |-> data.timezone,
         delivery_method |-> data.delivery_method,
         is_active |-> data.is_active,
         telegram_chat_id |-> IF chat = Null THEN base.telegram_chat_id ELSE chat,
         last_delivered_at |-> base.last_delivered_at]}

\* The scheduler form's save, for a submission that passed validation and left
\* the timezone at its default: the time of day is stored as HH:MM:SS and a
\* chat id goes along with Telegram.
SaveSchedule ==
    \E u \in Users, t \in FormTimes, z \in {DefaultTimezone}, m \in Methods,
       a \in BOOLEAN :
        LET data == [user_id |-> u, schedule_time |-> strftime_HMS(t), timezone |-> z,
                     delivery_method |-> m, is_active |-> a]
        IN /\ tick.pc = "idle"
           /\ tick.no = 0
           /\ scheduled_deliveries' =
                 upsert_schedule(scheduled_deliveries, data,
                                 IF m \in {"telegram", "both"} THEN <<"4", "2">> ELSE Null)
           /\ latest_save' = [latest_save EXCEPT ![u] = Some(data)]
           /\ UNCHANGED <<storeVars, raceVars, procVars, uiVars, cadVars, form,
                          auth_calls, sends, update_errors, tick, reviewVars>>

\* A row written by another client of the backend: the table's columns are
\* nullable, so schedule_time or telegram_chat_id can come back as None.
ForeignRow ==
    \E u \in Users, t \in {Null, strftime_HMS([h |-> 8, m |-> 0, s |-> 0])},
       m \in {"email", "telegram"} :
        /\ tick.pc = "idle"
        /\ tick.no = 0
        /\ ~HasRow(u)
        /\ scheduled_deliveries' = scheduled_deliveries \cup
              {[user_id |-> u, schedule_time |-> t, timezone |-> "UTC",
                delivery_method |-> m,
                is_active |-> TRUE, telegram_chat_id |-> Null,
                last_delivered_at |-> None]}
        /\ UNCHANGED <<storeVars, raceVars, otherVars, sends, update_errors, tick>>

\* select("*").eq("is_active", True): the rows a due-check lists
active_schedules(rows) == {r \in rows : r.is_active}

\* the comparison without the slice
time_matches_whole(row, current_time) == row.schedule_time = current_time

\* schedule_time[:5] == current_time
time_matches(row, current_time) == Take5(row.schedule_time) = current_time

\* the orders the backend can return a set of rows in
Orders(S) ==
    {q \in [1..Cardinality(S) -> S] : \A i, j \in 1..Cardinality(S) : q[i] = q[j] => i = j}

\* The start of a due-check (app.py:165-173, scheduler_service.py:26-39): obtain
\* the handle, read the clock, list the active rows. A failure of either call
\* is caught by the function's outer except, which ends the check.
TickStart(who) ==
    /\ tick.pc = "idle"
    /\ tick.no < MaxTicks
    /\ \E now \in Clock, throws \in BOOLEAN, fail \in BOOLEAN :
          LET c == Client(throws)
              listed == active_schedules(scheduled_deliveries)
              begun == [IdleTick EXCEPT !.who = who, !.no = tick.no + 1,
                                        !.current_time = strftime_HM(now)]
          IN /\ c.created <= MaxHandles
             /\ supabase' = c.supabase
             /\ created' = c.created
             /\ IF c.raised # NoRaise \/ fail
                THEN tick' = [begun EXCEPT !.aborted = TRUE]
                ELSE IF listed = {}
                THEN tick' = begun
                ELSE \E q \in Orders(listed) :
                        tick' = [begun EXCEPT !.pc = "loop", !.response = q, !.idx = 1]
    /\ UNCHANGED <<SUPABASE_URL, SUPABASE_KEY, tableVars, ret, got, raceVars, otherVars,
                   scheduled_deliveries, sends, update_errors>>

\* what can happen between the time match and the save of the draft: the user
\* lookup, the sources, the articles, the generation
PreOutcomes(who) ==
    {"lookup_raises", "user_not_found", "no_articles", "generation_raises", "ok"}
    \cup (IF who = "standalone" THEN {"no_rss_feeds", "no_api_key"} ELSE {})

\* the channels one delivery uses: the in-process scheduler follows the row's
\* delivery_method and needs a chat id for Telegram, the standalone one mails
uses_email(who, row) == who = "standalone" \/ row.delivery_method \in {"email", "both"}
uses_telegram(who, row) ==
    /\ who = "inproc"
    /\ row.delivery_method \in {"telegram", "both"}
    /\ row.telegram_chat_id # Null

\* success whatever the channels reported
delivery_always(who, row, email_success, telegram_success) == TRUE

\* success: at least one channel used reported a successful send
delivery_success(who, row, email_success, telegram_success) ==
    \/ uses_email(who, row) /\ email_success
    \/ uses_telegram(who, row) /\ telegram_success

\* update({"last_delivered_at": now}).eq("user_id", user_id)
mark_delivered(rows, user_id, at) ==
    {IF r.user_id = user_id THEN [r EXCEPT !.last_delivered_at = Some(at)] ELSE r :
        r \in rows}

\* One user's generation and delivery (app.py:184-298,
\* scheduler_service.py:62-174); every exception in it is caught around it.
Deliver(who, row) ==
    \E pre \in PreOutcomes(who) :
      IF pre # "ok"
      THEN UNCHANGED <<newsletters, nextId, sends, update_errors, scheduled_deliveries>>
      ELSE \E failSave \in BOOLEAN :
        LET u == row.user_id
            c == Client(FALSE)
            saved == save_newsletter(c, newsletters, [user_id |-> u, status |-> "draft"],
                                     failSave, nextId + 1)
        IN IF saved.value = None
           THEN UNCHANGED <<newsletters, nextId, sends, update_errors,
                            scheduled_deliveries>>
           ELSE \E email_success \in (IF uses_email(who, row) THEN BOOLEAN ELSE {FALSE}),
                   telegram_success \in (IF uses_telegram(who, row) THEN BOOLEAN
                                          ELSE {FALSE}) :
             LET id == saved.value[1]
                 sent == {[newsletter_id |-> id, user_id |-> u, tick |-> tick.no,
                           channel |-> "email", ok |-> email_success] :
                              x \in IF uses_email(who, row) THEN {1} ELSE {}}
                         \cup
                         {[newsletter_id |-> id, user_id |-> u, tick |-> tick.no,
                           channel |-> "telegram", ok |-> telegram_success] :
                              x \in IF uses_telegram(who, row) THEN {1} ELSE {}}
             IN /\ nextId' = nextId + 1
                /\ sends' = sends \cup sent
                /\ IF delivery_success(who, row, email_success, telegram_success)
                   THEN \E failSched \in BOOLEAN, failNews \in BOOLEAN :
                     IF failSched
                     THEN /\ newsletters' = saved.rows
                          /\ update_errors' = update_errors \cup
                                {[newsletter_id |-> id, table |-> "scheduled_deliveries"]}
                          /\ UNCHANGED scheduled_deliveries
                     ELSE /\ scheduled_deliveries' =
                                mark_delivered(scheduled_deliveries, u, tick.no)
                          /\ newsletters' =
                                update_newsletter(c, saved.rows, id, "sent", u, failNews).rows
                          /\ update_errors' =
                                IF failNews
                                THEN update_errors \cup
                                       {[newsletter_id |-> id, table |-> "newsletters"]}
                                ELSE update_errors
                   ELSE /\ newsletters' = saved.rows
                        /\ UNCHANGED <<update_errors, scheduled_deliveries>>

\* One pass of the loop over the listed rows (app.py:176-298,
\* scheduler_service.py:41-54). The row's fields are read outside the per-user
\* try: slicing a schedule_time that is None raises TypeError, which only the
\* outer except catches, and that ends the whole check.
ProcessRow ==
    /\ tick.pc = "loop"
    /\ LET row == tick.response[tick.idx]
           last == tick.idx = Len(tick.response)
           next == [tick EXCEPT !.idx = tick.idx + 1,
                                !.pc = IF last THEN "idle" ELSE "loop",
                                !.compared = tick.compared \cup {row.user_id}]
       IN IF row.schedule_time = Null
          THEN /\ tick' = [tick EXCEPT !.pc = "idle", !.aborted = TRUE]
               /\ UNCHANGED <<newsletters, nextId, sends, update_errors,
                              scheduled_deliveries>>
          ELSE IF time_matches(row, tick.current_time)
          THEN /\ tick' = [next EXCEPT !.triggered = tick.triggered \cup {row.user_id},
                                       !.finished = tick.finished \cup {row.user_id}]
               /\ Deliver(tick.who, row)
          ELSE /\ tick' = next
               /\ UNCHANGED <<newsletters, nextId, sends, update_errors,
                              scheduled_deliveries>>
    /\ UNCHANGED <<clientVars, user_sources, user_preferences, nextSrc, ret, got,
                   raceVars, otherVars>>

SchedNext ==
    \/ SaveSchedule
    \/ ForeignRow
    \/ \E who \in Schedulers : TickStart(who)
    \/ ProcessRow

\* The state after the modules are imported and before any call: no handle is
\* held (supabase_client.py:13) and the tables are empty.
Init ==
    /\ SUPABASE_URL \in BOOLEAN
    /\ SUPABASE_KEY \in BOOLEAN
    /\ supabase = None
    /\ created = 0
    /\ newsletters = {}
    /\ user_sources = {}
    /\ user_preferences = {}
    /\ nextId = 0
    /\ nextSrc = 0
    /\ ret = [op |-> "import", user |-> "-", raised |-> NoRaise, value |-> None,
              failed |-> FALSE]
    /\ got = [t \in Callers |-> None]
    /\ tpc = [t \in Callers |-> "idle"]
    /\ scheduled_deliveries = {}
    /\ sends = {}
    /\ update_errors = {}
    /\ tick = IdleTick
    /\ session_state = [s \in Sessions |-> NoSession]
    /\ scheduler_threads = {}
    /\ session_flags = {}
    /\ clicked = {}
    /\ clock = 0
    /\ next_run = 0
    /\ lpc = "off"
    /\ observed = {}
    /\ latest_save = [u \in Users |-> None]
    /\ form = NoForm
    /\ auth_calls = 0
    /\ review_timers = {}
    /\ nextTimer = 1
    /\ wall = 0
    /\ timer_hist = [p \in Pairs |-> NoHist]
    /\ timer_ret = NoCall
    /\ tcall = [s \in Sessions |-> NoStart]
    /\ preview = NoPreview
    /\ edit = NoEdit
    /\ draft = NoDraft
    /\ result = NoResult
    /\ shared = NoJobs
    /\ principal = NoUser
    /\ editor = NoEditor

\* the newsletters table, its feedback and statistics
SpecStore == Init /\ [][StoreNext]_vars

\* the user_sources and user_preferences tables
SpecSources == Init /\ [][SourcesNext]_vars

\* the due-checks of the in-process and the standalone scheduler
SpecSched == Init /\ [][SchedNext]_vars

\* the shared handle alone, obtained by the UI thread and a scheduler thread
SpecClient == Init /\ [][ClientNext]_vars

\* ------------------------------- get_supabase_client, statement by statement
\* Several threads inside get_supabase_client at once: the test of line 19, the
\* construction and assignment of line 22 and the return of line 30 are separate
\* steps, and nothing holds a lock between them.
RaceCall(t) ==
    /\ tpc[t] \in {"idle", "done"}
    /\ tpc' = [tpc EXCEPT ![t] = "line19"]
    /\ UNCHANGED <<storeVars, schedVars, otherVars>>

RaceTest(t) ==
    /\ tpc[t] = "line19"
    /\ IF supabase = None
       THEN IF SUPABASE_URL /\ SUPABASE_KEY
            THEN tpc' = [tpc EXCEPT ![t] = "line22"] /\ got' = got
            ELSE tpc' = [tpc EXCEPT ![t] = "idle"] /\ got' = [got EXCEPT ![t] = None]
       ELSE tpc' = [tpc EXCEPT ![t] = "line30"] /\ got' = got
    /\ UNCHANGED <<clientVars, tableVars, ret, schedVars, otherVars>>

RaceCreate(t) ==
    /\ tpc[t] = "line22"
    /\ created < MaxHandles
    /\ \E throws \in BOOLEAN :
          IF throws
          THEN /\ tpc' = [tpc EXCEPT ![t] = "idle"]
               /\ got' = [got EXCEPT ![t] = None]
               /\ UNCHANGED <<supabase, created>>
          ELSE /\ supabase' = <<created + 1>>
               /\ created' = created + 1
               /\ tpc' = [tpc EXCEPT ![t] = "line30"]
               /\ got' = got
    /\ UNCHANGED <<SUPABASE_URL, SUPABASE_KEY, tableVars, ret, schedVars, otherVars>>

RaceReturn(t) ==
    /\ tpc[t] = "line30"
    /\ got' = [got EXCEPT ![t] = supabase]
    /\ tpc' = [tpc EXCEPT ![t] = "done"]
    /\ UNCHANGED <<clientVars, tableVars, ret, schedVars, otherVars>>

RaceNext ==
    \E t \in Callers : RaceCall(t) \/ RaceTest(t) \/ RaceCreate(t) \/ RaceReturn(t)

\* threads of one process calling get_supabase_client with no handle held
SpecRace == Init /\ [][RaceNext]_vars

\* C8: get_supabase_client builds a handle only when none is held and otherwise
\* returns the held one, so two gets with no reset between them return the same
\* handle; after a reset the next successful get builds a new handle; a get
\* with the URL or the key absent, or whose construction throws, raises and
\* leaves no handle held.
C8_GetResetContract ==
    [][/\ ret'.op = "get" =>
            /\ supabase # None =>
                  /\ ret'.raised = NoRaise /\ ret'.value = supabase
                  /\ supabase' = supabase /\ created' = created
            /\ (supabase = None /\ ret'.raised = NoRaise) =>
                  /\ created' = created + 1
                  /\ supabase' = <<created'>> /\ ret'.value = supabase'
                  /\ \A t \in Callers : got[t] # supabase'
            /\ ret'.raised # NoRaise =>
                  /\ supabase = None /\ supabase' = None /\ created' = created
                  /\ ret'.value = None
            /\ (supabase = None /\ ~(SUPABASE_URL /\ SUPABASE_KEY)) =>
                  ret'.raised = "ValueError"
            /\ (ret.op = "get" /\ ret.raised = NoRaise) =>
                  ret'.raised = NoRaise /\ ret'.value = ret.value
       /\ ret'.op = "reset" => supabase' = None /\ created' = created
      ]_vars

\* a second handle was built by the get that followed a reset, while a caller
\* still has the first one
C8_Witness ==
    /\ ret.op = "get" /\ ret.value = <<2>> /\ supabase = <<2>>
    /\ \E t \in Callers : got[t] = <<1>>

\* C9: when threads call get_supabase_client concurrently with no handle held,
\* the handle is constructed exactly once and every caller receives that same
\* handle.
C9_ConstructedOnce ==
    /\ created <= 1
    /\ \A t1, t2 \in Callers :
          (tpc[t1] = "done" /\ tpc[t2] = "done") => got[t1] = got[t2]

PersistenceOps ==
    {"fetch_newsletters", "save_newsletter", "update_newsletter", "delete_newsletter",
     "get_newsletter_by_id", "save_user_sources", "get_user_sources",
     "update_user_source", "delete_user_source", "save_user_preferences",
     "get_user_preferences", "get_user_stats"}
BoolOps ==
    {"update_newsletter", "delete_newsletter", "save_user_sources",
     "update_user_source", "delete_user_source", "save_user_preferences"}

\* C10: every persistence-layer operation returns its empty/falsy/nothing
\* result and never raises, for any backend failure including a failure to
\* obtain or construct the handle, and leaves the stored rows unchanged.
C10_NeverRaises ==
    [][(ret'.op \in PersistenceOps /\ ret'.failed) =>
          /\ ret'.raised = NoRaise
          /\ ret'.value = (IF ret'.op \in BoolOps THEN FALSE ELSE None)
          /\ tableVars' = tableVars
      ]_vars

OthersRows(rows, u) == {r \in rows : r.user_id # u}

\* C5: an operation invoked with user_id A modifies, deletes or returns no
\* Newsletter or Source row whose user_id is another user's.
C5_UserIsolation ==
    [][ret'.user \in Users =>
          /\ OthersRows(newsletters', ret'.user) = OthersRows(newsletters, ret'.user)
          /\ OthersRows(user_sources', ret'.user) = OthersRows(user_sources, ret'.user)
          /\ ret'.op \in {"fetch_newsletters", "get_user_sources"} =>
                \A i \in 1..Len(ret'.value) : ret'.value[i].user_id = ret'.user
          /\ (ret'.op = "get_newsletter_by_id" /\ ret'.value # None) =>
                ret'.value[1].user_id = ret'.user
      ]_vars

\* ------------------------------------------ the dashboard's sessions (app.py)
\* Every browser session attached to the dashboard process has its own
\* st.session_state; the script, and with it main(), runs once per interaction
\* of a session. A thread started by any of them lives as long as the process.

\* initialize_session_state: "user" defaults to None when the key is missing
initialize_session_state(state) ==
    [attached |-> TRUE,
     keys |-> state.keys \cup {"user"},
     user |-> IF "user" \in state.keys THEN state.user ELSE NoUser]

\* start_scheduler: the guard is a key of the running session's state
start_scheduler(state, threads, s) ==
    IF "scheduler_thread_started" \notin state.keys
    THEN [state |-> [state EXCEPT !.keys = state.keys \cup {"scheduler_thread_started"}],
          threads |-> threads \cup {[no |-> Cardinality(threads) + 1, by |-> s]}]
    ELSE [state |-> state, threads |-> threads]

\* one run of the script for session s: the module level, then main()
main(state, threads, s) == start_scheduler(initialize_session_state(state), threads, s)

Ran(s, r) ==
    /\ Cardinality(r.threads) <= MaxThreads
    /\ session_state' = [session_state EXCEPT ![s] = r.state]
    /\ scheduler_threads' = r.threads

\* a session connects, or an interaction reruns the script
RunMain ==
    \E s \in Sessions :
        /\ Ran(s, main(session_state[s], scheduler_threads, s))
        /\ UNCHANGED <<storeVars, raceVars, schedVars, uiVars, cadVars, formVars, reviewVars>>

\* a successful sign-in stores the user and reruns (app.py:627-631)
SignIn ==
    \E s \in Sessions, u \in Users :
        /\ session_state[s].attached
        /\ session_state[s].user = NoUser
        /\ Ran(s, main([session_state[s] EXCEPT !.user = u], scheduler_threads, s))
        /\ UNCHANGED <<storeVars, raceVars, schedVars, uiVars, cadVars, formVars, reviewVars>>

\* Logout: sign_out(), st.session_state.clear(), st.rerun() (app.py:755-758)
Logout ==
    \E s \in Sessions :
        /\ session_state[s].user # NoUser
        /\ Ran(s, main([session_state[s] EXCEPT !.keys = {}], scheduler_threads, s))
        /\ UNCHANGED <<storeVars, raceVars, schedVars, uiVars, cadVars, formVars, reviewVars>>

SessionNext == RunMain \/ SignIn \/ Logout

\* the sessions of one dashboard process and the threads they start
SpecSessions == Init /\ [][SessionNext]_vars

\* C3: after any runs of main() from any number of browser sessions the
\* dashboard process has exactly one background scheduler thread.
C3_OneSchedulerThread ==
    (\E s \in Sessions : session_state[s].attached) =>
        Cardinality(scheduler_threads) = 1

\* C20: within one browser session, over any reruns of main(), a logout and a
\* new sign-in included, start_scheduler starts the scheduler thread at most once.
C20_OncePerSession ==
    \A s \in Sessions : Cardinality({t \in scheduler_threads : t.by = s}) <= 1

\* ---------------------------------------------------- the forms (app.py)
\* str.isdigit() on the ASCII texts a form field holds
DigitChars == {"0", "1", "2", "3", "4", "5", "6", "7", "8", "9"}
isdigit(text) == text # <<>> /\ \A i \in 1..Len(text) : text[i] \in DigitChars

\* str.strip() and str.lstrip('-')
RECURSIVE lstrip(_, _)
lstrip(text, chars) ==
    IF text # <<>> /\ Head(text) \in chars THEN lstrip(Tail(text), chars) ELSE text
RECURSIVE rstrip(_, _)
rstrip(text, chars) ==
    IF text # <<>> /\ text[Len(text)] \in chars
    THEN rstrip(SubSeq(text, 1, Len(text) - 1), chars)
    ELSE text
strip(text) == rstrip(lstrip(text, {" "}), {" "})

\* re.match(r'^[a-zA-Z0-9_-]+$', username)
NameChars ==
    {
     "a", "b", "c", "d", "e", "f", "g", "h", "i", "j", "k", "l", "m", "n",
     "o", "p", "q", "r", "s", "t", "u", "v", "w", "x", "y", "z", "A", "B",
     "C", "D", "E", "F", "G", "H", "I", "J", "K", "L", "M", "N", "O", "P",
     "Q", "R", "S", "T", "U", "V", "W", "X", "Y", "Z"
    } \cup DigitChars \cup {"_", "-"}
name_matches(text) == text # <<>> /\ \A i \in 1..Len(text) : text[i] \in NameChars

\* validate_email: a malformed address is rejected
validate_email(email) == email.well_formed

\* what the fields of the forms can hold
Emails == {[addr |-> "a@x.io", well_formed |-> TRUE, owner |-> "A"],
           [addr |-> "b@x.io", well_formed |-> TRUE, owner |-> "B"],
           [addr |-> "a.x.io", well_formed |-> FALSE, owner |-> "A"]}
Passwords == {<<"s", "e", "c", "r", "e", "t">>, <<"s", "e", "c", "r", "e">>,
              <<"S", "e", "c", "r", "e", "t">>}
Usernames == {<<"b", "o", "b">>, <<"a", "b">>, <<"b", "!", "b">>, <<>>,
              <<"b", "_", "-", "9">>}
ChatIds == {<<>>, <<"4", "2">>, <<"-", "4", "2">>, <<"-", "-", "4", "2">>,
            <<"4", "a">>}

\* the validation of the sign-in form (app.py:619-622): TRUE when rejected
sign_in_errors(email, password) ==
    \/ ~validate_email(email)
    \/ Len(password) < 6

\* the validation of the sign-up form (app.py:683-694)
sign_up_errors(agree, email, username, password, confirm_password) ==
    \/ ~agree
    \/ ~validate_email(email)
    \/ username = <<>> \/ Len(username) < 3
    \/ ~name_matches(username)
    \/ Len(password) < 6
    \/ password # confirm_password

\* the validation of the scheduler form (app.py:2646-2669)
schedule_errors(delivery_method, telegram_chat_id, email_ok, telegram_ok) ==
    \/ /\ delivery_method \in {"telegram", "both"}
       /\ \/ telegram_chat_id = <<>>
          \/ ~isdigit(lstrip(strip(telegram_chat_id), {"-"}))
          \/ ~telegram_ok
    \/ /\ delivery_method \in {"email", "both"}
       /\ ~email_ok

Submitted(kind, u, ok) ==
    /\ form.no < MaxSubmits
    /\ form' = [no |-> form.no + 1, kind |-> kind, user |-> u, well_formed |-> ok]

\* the sign-in form's handler (app.py:618-633): sign_in is called only past the
\* validation, and the user it returns is stored before the rerun
SubmitSignIn ==
    \E s \in Sessions, email \in Emails, password \in Passwords, found \in BOOLEAN :
        /\ session_state[s].attached
        /\ session_state[s].user = NoUser
        /\ Submitted("sign_in", NoUser, validate_email(email) /\ Len(password) >= 6)
        /\ IF sign_in_errors(email, password)
           THEN UNCHANGED <<auth_calls, procVars>>
           ELSE /\ auth_calls' = auth_calls + 1
                /\ IF found
                   THEN Ran(s, main([session_state[s] EXCEPT !.user = email.owner],
                                    scheduler_threads, s))
                   ELSE UNCHANGED procVars
        /\ UNCHANGED <<storeVars, raceVars, schedVars, uiVars, cadVars, latest_save, reviewVars>>

\* the submissions of the sign-up form that are tried: a well-formed one and
\* the ones that differ from it in one field
GoodSignUp ==
    [agree |-> TRUE,
     email |-> [addr |-> "a@x.io", well_formed |-> TRUE, owner |-> "A"],
     username |-> <<"b", "o", "b">>,
     password |-> <<"s", "e", "c", "r", "e", "t">>,
     confirm_password |-> <<"s", "e", "c", "r", "e", "t">>]
SignUpInputs ==
    {GoodSignUp, [GoodSignUp EXCEPT !.agree = FALSE]}
    \cup {[GoodSignUp EXCEPT !.email = e] : e \in Emails}
    \cup {[GoodSignUp EXCEPT !.username = n] : n \in Usernames}
    \cup {[GoodSignUp EXCEPT !.password = w] : w \in Passwords}
    \cup {[GoodSignUp EXCEPT !.password = w, !.confirm_password = w] : w \in Passwords}

\* the sign-up form's handler (app.py:682-705)
SubmitSignUp ==
    \E s \in Sessions, in \in SignUpInputs, created_ok \in BOOLEAN :
        /\ session_state[s].attached
        /\ session_state[s].user = NoUser
        /\ Submitted("sign_up", NoUser,
                     /\ in.agree
                     /\ validate_email(in.email)
                     /\ Len(in.username) >= 3
                     /\ \A i \in 1..Len(in.username) : in.username[i] \in NameChars
                     /\ Len(in.password) >= 6
                     /\ in.password = in.confirm_password)
        /\ IF sign_up_errors(in.agree, in.email, in.username, in.password,
                             in.confirm_password)
           THEN UNCHANGED <<auth_calls, procVars>>
           ELSE /\ auth_calls' = auth_calls + 1
                /\ IF created_ok
                   THEN Ran(s, main([session_state[s] EXCEPT !.user = in.email.owner],
                                    scheduler_threads, s))
                   ELSE UNCHANGED procVars
        /\ UNCHANGED <<storeVars, raceVars, schedVars, uiVars, cadVars, latest_save, reviewVars>>

\* a chat id as the form asks for it: digits only, after at most one leading '-'
WellFormedChat(text) ==
    LET body == IF text # <<>> /\ Head(text) = "-" THEN Tail(text) ELSE text
    IN body # <<>> /\ \A i \in 1..Len(body) : body[i] \in DigitChars

\* the submissions of the scheduler form that are tried: three that differ in
\* every field, and what they become with another chat id or with a transport
\* that is not configured
MailAtEight ==
    [delivery_time |-> [h |-> 8, m |-> 0, s |-> 0], timezone |-> "UTC",
     delivery_method |-> "email", is_active |-> TRUE, telegram_chat_id |-> <<>>,
     email_configured |-> TRUE, telegram_configured |-> TRUE]
ChatPaused ==
    [delivery_time |-> [h |-> 8, m |-> 1, s |-> 30], timezone |-> "Asia/Kolkata",
     delivery_method |-> "telegram", is_active |-> FALSE,
     telegram_chat_id |-> <<"4", "2">>,
     email_configured |-> TRUE, telegram_configured |-> TRUE]
BothAtEight ==
    [delivery_time |-> [h |-> 8, m |-> 0, s |-> 0], timezone |-> "Asia/Kolkata",
     delivery_method |-> "both", is_active |-> TRUE,
     telegram_chat_id |-> <<"-", "4", "2">>,
     email_configured |-> TRUE, telegram_configured |-> TRUE]
ScheduleInputs ==
    {MailAtEight, ChatPaused, BothAtEight}
    \cup {[ChatPaused EXCEPT !.telegram_chat_id = c] : c \in ChatIds}
    \cup {[i EXCEPT !.email_configured = FALSE] : i \in {MailAtEight, BothAtEight}}
    \cup {[i EXCEPT !.telegram_configured = FALSE] : i \in {ChatPaused, BothAtEight}}

\* the scheduler form's handler (app.py:2645-2704) for the signed-in user of a
\* session: validation, then the upsert, whose failure is caught and shown
SubmitSchedule ==
    \E s \in Sessions, in \in ScheduleInputs, fail \in BOOLEAN :
        LET u == session_state[s].user
            m == in.delivery_method
            data == [user_id |-> u, schedule_time |-> strftime_HMS(in.delivery_time),
                     timezone |-> in.timezone, delivery_method |-> m,
                     is_active |-> in.is_active]
        IN /\ u # NoUser
           /\ Submitted("schedule", u,
                        /\ m \in {"telegram", "both"} =>
                              /\ WellFormedChat(in.telegram_chat_id)
                              /\ in.telegram_configured
                        /\ m \in {"email", "both"} => in.email_configured)
           /\ IF \/ schedule_errors(m, in.telegram_chat_id, in.email_configured,
                                    in.telegram_configured)
                 \/ fail
              THEN UNCHANGED <<scheduled_deliveries, latest_save>>
              ELSE /\ scheduled_deliveries' =
                         upsert_schedule(scheduled_deliveries, data,
                                         IF m \in {"telegram", "both"}
                                         THEN strip(in.telegram_chat_id) ELSE Null)
                   /\ latest_save' = [latest_save EXCEPT ![u] = Some(data)]
           /\ UNCHANGED <<storeVars, raceVars, procVars, uiVars, cadVars, auth_calls,
                          sends, update_errors, tick, reviewVars>>

FormNext == RunMain \/ SignIn \/ SubmitSignIn \/ SubmitSignUp \/ SubmitSchedule

\* the sign-in, sign-up and scheduler forms of the sessions
SpecForm == Init /\ [][FormNext]_vars

RowsOfUser(rows, u) == {r \in rows : r.user_id = u}

\* C11: after any scheduler-form saves by any users, scheduled_deliveries holds
\* at most one row per user_id, that row carries the schedule_time, timezone,
\* delivery_method and is_active of the user's latest successful save, and a
\* save by one user leaves every other user's row as it was.
C11_OneRowPerUser ==
    [][/\ \A u \in Users :
            /\ Cardinality(RowsOfUser(scheduled_deliveries', u)) <= 1
            /\ latest_save'[u] = None => RowsOfUser(scheduled_deliveries', u) = {}
            /\ latest_save'[u] # None =>
                  \E r \in RowsOfUser(scheduled_deliveries', u) :
                     LET d == latest_save'[u][1]
                     IN /\ r.schedule_time = d.schedule_time
                        /\ r.timezone = d.timezone
                        /\ r.delivery_method = d.delivery_method
                        /\ r.is_active = d.is_active
       /\ \A u \in Users \ {form'.user} :
            RowsOfUser(scheduled_deliveries', u) = RowsOfUser(scheduled_deliveries, u)]_vars

\* both users hold a row, the second written by a save that left the first alone
C11_Witness ==
    /\ form.kind = "schedule"
    /\ \A u \in Users : latest_save[u] # None /\ RowsOfUser(scheduled_deliveries, u) # {}

\* C19: a submission of the sign-in, sign-up or scheduler form that fails
\* validation makes no authentication call, leaves every session's user as it
\* was and performs no scheduled_deliveries upsert.
C19_RejectedSubmission ==
    [][(form'.no # form.no /\ ~form'.well_formed) =>
          /\ auth_calls' = auth_calls
          /\ \A s \in Sessions : session_state'[s].user = session_state[s].user
          /\ scheduled_deliveries' = scheduled_deliveries]_vars

\* ------------------------------- the delete buttons of the dashboard (app.py)
\* The signed-in user's lists as the script renders them, and the Delete and
\* Remove buttons. The confirmation key of a button carries the position of
\* the item in the list, not the item's id.
UiUser == "A"

\* newsletters[:10]
FirstTen(list) == SubSeq(list, 1, IF Len(list) < 10 THEN Len(list) ELSE 10)

Item(kind, id) == [kind |-> kind, id |-> id]
ConfirmKey(kind, i) == [key |-> kind, i |-> i]

\* the Delete button of the i-th newsletter card (app.py:1069-1082)
ClickDelete ==
    \E failDel \in BOOLEAN :
        LET c == Client(FALSE)
            list == FirstTen(fetch_newsletters(c, newsletters, UiUser, FALSE).value)
        IN /\ c.raised = NoRaise
           /\ c.created <= MaxHandles
           /\ \E i \in 1..Len(list) :
                LET key == ConfirmKey("confirm_delete", i - 1)
                    r == delete_newsletter(c, newsletters, list[i].id, UiUser, failDel)
                IN /\ clicked' = clicked \cup {Item("newsletter", list[i].id)}
                   /\ IF key \notin session_flags
                      THEN /\ session_flags' = session_flags \cup {key}
                           /\ UNCHANGED newsletters
                      ELSE IF r.value
                      THEN /\ newsletters' = r.rows
                           /\ session_flags' = session_flags \ {key}
                      ELSE UNCHANGED <<newsletters, session_flags>>
           /\ supabase' = c.supabase
           /\ created' = c.created
           /\ UNCHANGED <<SUPABASE_URL, SUPABASE_KEY, user_sources, user_preferences,
                          nextId, nextSrc, ret, got, raceVars, schedVars, procVars,
                          cadVars, formVars, reviewVars>>

\* the Remove button of the i-th source (app.py:1847-1863)
ClickRemove ==
    \E failDel \in BOOLEAN :
        LET c == Client(FALSE)
            list == get_user_sources(c, user_sources, UiUser, FALSE).value
        IN /\ c.raised = NoRaise
           /\ c.created <= MaxHandles
           /\ \E i \in 1..Len(list) :
                LET key == ConfirmKey("confirm_remove", i - 1)
                    r == delete_user_source(c, user_sources, list[i].id, UiUser, failDel)
                IN /\ clicked' = clicked \cup {Item("source", list[i].id)}
                   /\ IF key \notin session_flags
                      THEN /\ session_flags' = session_flags \cup {key}
                           /\ UNCHANGED user_sources
                      ELSE IF r.value
                      THEN /\ user_sources' = r.rows
                           /\ session_flags' = session_flags \ {key}
                      ELSE UNCHANGED <<user_sources, session_flags>>
           /\ supabase' = c.supabase
           /\ created' = c.created
           /\ UNCHANGED <<SUPABASE_URL, SUPABASE_KEY, newsletters, user_preferences,
                          nextId, nextSrc, ret, got, raceVars, schedVars, procVars,
                          cadVars, formVars, reviewVars>>

UiNext == SaveNewsletter \/ SaveUserSources \/ ClickDelete \/ ClickRemove

\* the dashboard's and the sources tab's lists, rows being added meanwhile
SpecUi == Init /\ [][UiNext]_vars

\* C6: whatever the clicks, reruns and changes of the lists, a newsletter or
\* a source is deleted only by a click on an item whose Delete/Remove button
\* had been clicked before; the first click on an item never deletes it.
C6_TwoClicks ==
    [][/\ \A n \in newsletters \ newsletters' : Item("newsletter", n.id) \in clicked
       /\ \A x \in user_sources \ user_sources' : Item("source", x.id) \in clicked]_vars

\* ----------------------------------------- the scheduler loop's cadence
\* schedule.every(1).minutes.do(job) registers the job with next_run one period
\* after the registration; run_pending runs it when now >= next_run and then
\* sets next_run one period after the moment the job returned; the loop sleeps
\* SleepSeconds after every run_pending (app.py:303-309,
\* scheduler_service.py:185-197).
Period == EveryMinutes * 60
Durations == {0, 10, 30}                 \* seconds one due-check can take
Starts == {0, 20, 50}                    \* the second the loop is started at
Minute(t) == t \div 60

\* the loop starts: the job is registered; the standalone service runs one
\* due-check at once
StartLoop ==
    \E who \in Schedulers, at \in Starts, d \in Durations :
        /\ lpc = "off"
        /\ next_run' = at + Period
        /\ IF who = "standalone"
           THEN /\ observed' = {Minute(at)}
                /\ clock' = at + d
           ELSE /\ observed' = observed
                /\ clock' = at
        /\ lpc' = "run_pending"
        /\ UNCHANGED <<storeVars, raceVars, schedVars, procVars, uiVars, formVars, reviewVars>>

\* schedule.run_pending(): the due-check reads current_time as it starts
RunPending ==
    /\ lpc = "run_pending"
    /\ IF clock >= next_run
       THEN \E d \in Durations :
               /\ clock + d <= MaxClock
               /\ observed' = observed \cup {Minute(clock)}
               /\ clock' = clock + d
               /\ next_run' = clock + d + Period
       ELSE UNCHANGED <<observed, clock, next_run>>
    /\ lpc' = "sleep"
    /\ UNCHANGED <<storeVars, raceVars, schedVars, procVars, uiVars, formVars, reviewVars>>

\* time.sleep(30)
Sleep ==
    /\ lpc = "sleep"
    /\ clock + SleepSeconds <= MaxClock
    /\ clock' = clock + SleepSeconds
    /\ lpc' = "run_pending"
    /\ UNCHANGED <<next_run, observed, storeVars, raceVars, schedVars, procVars, uiVars,
                   formVars, reviewVars>>

CadenceNext == StartLoop \/ RunPending \/ Sleep

\* one scheduler loop against the wall clock
SpecCadence == Init /\ [][CadenceNext]_vars

\* C2: while the loop runs, every wall-clock minute after the first due-check
\* has a due-check that read it as current_time, however long the checks take.
C2_EveryMinuteObserved ==
    \A m \in 0..Minute(clock) :
        ((\E a \in observed : a < m) /\ m < Minute(clock)) => m \in observed

\* ---------------------------------------------------- the due-check's claims
RowsOfTick == {tick.response[i] : i \in 1..Len(tick.response)}
UsersOfTick == {r.user_id : r \in RowsOfTick}
FirstFiveEqual(text, hm) ==
    /\ Len(text) >= 5
    /\ Len(hm) = 5
    /\ \A k \in 1..5 : text[k] = hm[k]

Delivered(id) == \E d \in sends : d.newsletter_id = id /\ d.ok
DeliveredIn(u, k) == \E d \in sends : d.user_id = u /\ d.tick = k /\ d.ok
TickOf(id) == (CHOOSE d \in sends : d.newsletter_id = id).tick

\* C4 as claimed: for a due user last_delivered_at is updated and the saved
\* newsletter set to "sent" if and only if at least one channel reported a
\* successful send.
C4_SentIffDelivered ==
    /\ \A n \in newsletters : n.status = "sent" <=> Delivered(n.id)
    /\ \A r \in scheduled_deliveries : \A k \in 1..MaxTicks :
          /\ r.last_delivered_at = Some(k) => DeliveredIn(r.user_id, k)
          /\ DeliveredIn(r.user_id, k) =>
                (r.last_delivered_at # None /\ r.last_delivered_at[1] >= k)

\* C4 as amended: "sent" and an updated last_delivered_at only after a channel
\* reported success; both follow that success when the two backend updates go
\* through; and "sent" is never set without last_delivered_at.
C4_SentOnlyIfDelivered ==
    /\ \A n \in newsletters :
          /\ n.status \in {"draft", "sent"}
          /\ n.status = "sent" =>
                /\ Delivered(n.id)
                /\ \A r \in scheduled_deliveries :
                      r.user_id = n.user_id => r.last_delivered_at # None
          /\ (Delivered(n.id) /\ ~\E e \in update_errors : e.newsletter_id = n.id) =>
                /\ n.status = "sent"
                /\ \A r \in scheduled_deliveries :
                      r.user_id = n.user_id =>
                         (r.last_delivered_at # None
                            /\ r.last_delivered_at[1] >= TickOf(n.id))
          /\ ~Delivered(n.id) => n.status = "draft"
    /\ \A r \in scheduled_deliveries : \A k \in 1..MaxTicks :
          r.last_delivered_at = Some(k) => DeliveredIn(r.user_id, k)

\* the in-process scheduler sent over both channels, the mail failed, Telegram
\* succeeded and the newsletter is "sent"; another user's delivery failed and
\* left a draft
C4_Witness ==
    /\ tick.who = "inproc"
    /\ \E n \in newsletters :
          /\ n.status = "sent"
          /\ \E d \in sends :
                d.newsletter_id = n.id /\ d.channel = "email" /\ ~d.ok
          /\ \E d \in sends :
                d.newsletter_id = n.id /\ d.channel = "telegram" /\ d.ok
    /\ \E n \in newsletters : n.status = "draft" /\ ~Delivered(n.id)

\* C7: within one due-check a failure at any step of one user's processing,
\* the reading of the row's fields included, is caught and the remaining due
\* users are still processed.
C7_FailureIsolated ==
    tick.pc = "idle" =>
       \A r \in RowsOfTick :
          (r.schedule_time # Null /\ FirstFiveEqual(r.schedule_time, tick.current_time))
             => r.user_id \in tick.finished


\* ------------------------------------- review timers (feedback_system.py)
\* A review_timers row: [id, newsletter_id, user_id, started_at, status,
\* ended_at, duration_minutes, action]. Times are minutes of the wall clock.
\* fail: the handle cannot be used or a backend call raises; the except of
\* each function turns that into False / None.
select_timers(rows, newsletter_id, user_id) ==
    {r \in rows : r.newsletter_id = newsletter_id /\ r.user_id = user_id}

NewTimer(id, newsletter_id, user_id, now) ==
    [id |-> id, newsletter_id |-> newsletter_id, user_id |-> user_id,
     started_at |-> now, status |-> "active", ended_at |-> None,
     duration_minutes |-> None, action |-> None]

\* a restart that leaves started_at as it was
restart_keeps_started_at(rows, newsletter_id, user_id, now, existing, id) ==
    IF existing
    THEN LET hit == select_timers(rows, newsletter_id, user_id)
         IN (rows \ hit) \cup {[r EXCEPT !.status = "active"] : r \in hit}
    ELSE rows \cup {NewTimer(id, newsletter_id, user_id, now)}

\* lines 223-236: the update of the pair's rows when the select found one, the
\* insert of a new row when it found none
write_timer(rows, newsletter_id, user_id, now, existing, id) ==
    IF existing
    THEN LET hit == select_timers(rows, newsletter_id, user_id)
         IN (rows \ hit)
            \cup {[r EXCEPT !.started_at = now, !.status = "active"] : r \in hit}
    ELSE rows \cup {NewTimer(id, newsletter_id, user_id, now)}

start_review_timer(rows, newsletter_id, user_id, now, fail, id) ==
    IF fail THEN Failed(rows, FALSE)
    ELSE Returned(write_timer(rows, newsletter_id, user_id, now,
                              select_timers(rows, newsletter_id, user_id) # {}, id),
                  TRUE)

active_timers(rows, newsletter_id, user_id) ==
    {r \in select_timers(rows, newsletter_id, user_id) : r.status = "active"}

\* first: the row the backend lists first among the active ones (data[0])
stop_review_timer(rows, newsletter_id, user_id, action, now, fail, first) ==
    IF fail THEN Failed(rows, None)
    ELSE IF active_timers(rows, newsletter_id, user_id) = {} THEN Returned(rows, None)
    ELSE LET duration_minutes == now - first.started_at
             hit == {r \in rows : r.id = first.id}
         IN Returned((rows \ hit)
                     \cup {[r EXCEPT !.ended_at = Some(now),
                                     !.duration_minutes = Some(duration_minutes),
                                     !.action = Some(action),
                                     !.status = "completed"] : r \in hit},
                     Some(duration_minutes))

\* the rows stop_review_timer can find listed first; a placeholder when the
\* select comes back empty
FirstListed(rows, newsletter_id, user_id) ==
    IF active_timers(rows, newsletter_id, user_id) = {}
    THEN {NewTimer(0, newsletter_id, user_id, 0)}
    ELSE active_timers(rows, newsletter_id, user_id)

Actions == {"sent", "accepted"}

\* datetime.now() moves on between two calls
Advance ==
    /\ wall < MaxWall
    /\ wall' = wall + 1
    /\ UNCHANGED <<storeVars, raceVars, schedVars, procVars, uiVars, cadVars,
                   formVars, pureVars, lateVars, review_timers, nextTimer, timer_hist, timer_ret,
                   tcall, preview>>

Started(p, r) ==
    /\ review_timers' = r.rows
    /\ nextTimer' = IF Cardinality(r.rows) > Cardinality(review_timers)
                    THEN nextTimer + 1 ELSE nextTimer
    /\ timer_hist' = IF r.failed THEN timer_hist
                     ELSE [timer_hist EXCEPT ![p].started_at = Some(wall)]
    /\ timer_ret' = [no |-> timer_ret.no + 1, op |-> "start", pair |-> p,
                     started |-> r.value, duration |-> None, failed |-> r.failed]

Stopped(p, r) ==
    /\ review_timers' = r.rows
    /\ timer_hist' = IF r.value = None THEN timer_hist
                     ELSE [timer_hist EXCEPT ![p].stops = @ + 1]
    /\ timer_ret' = [no |-> timer_ret.no + 1, op |-> "stop", pair |-> p,
                     started |-> FALSE, duration |-> r.value, failed |-> r.failed]

\* one whole start_review_timer call
StartTimer ==
    \E p \in Reviewed \X Users, fail \in BOOLEAN :
        /\ timer_ret.no < MaxCalls
        /\ Started(p, start_review_timer(review_timers, p[1], p[2], wall, fail,
                                         nextTimer))
        /\ UNCHANGED <<storeVars, raceVars, schedVars, procVars, uiVars, cadVars,
                       formVars, pureVars, lateVars, wall, tcall, preview>>

\* one whole stop_review_timer call
StopTimer ==
    \E p \in Reviewed \X Users, action \in Actions, fail \in BOOLEAN :
        \E first \in FirstListed(review_timers, p[1], p[2]) :
            /\ timer_ret.no < MaxCalls
            /\ Stopped(p, stop_review_timer(review_timers, p[1], p[2], action,
                                            wall, fail, first))
            /\ UNCHANGED <<storeVars, raceVars, schedVars, procVars, uiVars,
                           cadVars, formVars, pureVars, lateVars, wall, nextTimer, tcall, preview>>

TimerNext == Advance \/ StartTimer \/ StopTimer

\* the timer functions called one after the other
SpecTimers == Init /\ [][TimerNext]_vars

\* start_review_timer from several sessions: the select of line 218 and the
\* write of lines 223-236 are two requests, and other sessions' requests can be
\* served between them.
Pending == Cardinality({s \in Sessions : tcall[s].pc # "idle"})

StartSelect ==
    \E s \in Sessions, p \in Reviewed \X Users :
        /\ tcall[s].pc = "idle"
        /\ timer_ret.no + Pending < MaxCalls
        /\ tcall' = [tcall EXCEPT ![s] =
                       [pc |-> "selected", pair |-> p,
                        existing |-> select_timers(review_timers, p[1], p[2]) # {}]]
        /\ UNCHANGED <<storeVars, raceVars, schedVars, procVars, uiVars, cadVars,
                       formVars, pureVars, lateVars, review_timers, nextTimer, wall, timer_hist,
                       timer_ret, preview>>

StartWrite ==
    \E s \in Sessions :
        LET p == tcall[s].pair
        IN /\ tcall[s].pc = "selected"
           /\ Started(p, Returned(write_timer(review_timers, p[1], p[2], wall,
                                              tcall[s].existing, nextTimer), TRUE))
           /\ tcall' = [tcall EXCEPT ![s] = NoStart]
           /\ UNCHANGED <<storeVars, raceVars, schedVars, procVars, uiVars, cadVars,
                          formVars, pureVars, lateVars, wall, preview>>

TimerRaceNext == Advance \/ StartSelect \/ StartWrite \/ StopTimer

SpecTimerRace == Init /\ [][TimerRaceNext]_vars

TimersOf(p) == select_timers(review_timers, p[1], p[2])

\* C12: after any sequence of start_review_timer and stop_review_timer calls
\* for one (newsletter, user) pair, from one session or interleaved from
\* several, review_timers holds at most one row for the pair.
C12_OneTimerPerPair == \A p \in Pairs : Cardinality(TimersOf(p)) <= 1

\* C13: a stop_review_timer call that finds an active timer returns a
\* duration >= 0, the time since the pair's latest start, and marks that row
\* completed; one that finds none, or whose backend request raises, returns
\* nothing and changes no row.
C13_StopContract ==
    [][(timer_ret'.no # timer_ret.no /\ timer_ret'.op = "stop") =>
         LET p == timer_ret'.pair
             active == {r \in TimersOf(p) : r.status = "active"}
         IN IF active = {} \/ timer_ret'.failed
            THEN timer_ret'.duration = None /\ review_timers' = review_timers
            ELSE /\ timer_ret'.duration = Some(wall - timer_hist[p].started_at[1])
                 /\ timer_ret'.duration[1] >= 0
                 /\ \E r \in active, a \in Actions :
                        review_timers' \ review_timers =
                              {[r EXCEPT !.ended_at = Some(wall),
                                         !.duration_minutes = timer_ret'.duration,
                                         !.action = Some(a),
                                         !.status = "completed"]}
                 /\ \A q \in review_timers' :
                        (q.newsletter_id = p[1] /\ q.user_id = p[2])
                            => q.status = "completed"
                 /\ \A q \in review_timers :
                        (q \notin active) => q \in review_timers']_vars

\* a second stop of one pair has returned a duration shorter than the time
\* since the pair's first start
C13_Witness ==
    /\ timer_ret.op = "stop"
    /\ timer_ret.duration = Some(1)
    /\ timer_hist[timer_ret.pair].stops = 2
    /\ wall = MaxWall


\* --------------------------- the preview panel of the Generate tab (app.py)
\* One signed-in session of UiUser. Every button click reruns the script from
\* the top: the panel is rendered, which starts the review timer when the
\* session has a draft and no 'review_timer_started' key (lines 1281-1285),
\* and then the clicked button's handler runs. closed and start_failed record
\* the newsletters whose draft was sent or cleared and those whose
\* start_review_timer request failed.
render_preview(pv, rows, now, fail, id) ==
    IF /\ pv.generated_newsletter
       /\ pv.current_newsletter_id # None
       /\ ~pv.review_timer_started
    THEN [preview |-> [pv EXCEPT !.review_timer_started = TRUE,
                                 !.start_failed =
                                     IF fail THEN @ \cup {pv.current_newsletter_id[1]}
                                     ELSE @],
          rows |-> start_review_timer(rows, pv.current_newsletter_id[1], UiUser,
                                      now, fail, id).rows]
    ELSE [preview |-> pv, rows |-> rows]

Rendered(c, shown) ==
    /\ c.raised = NoRaise
    /\ c.created <= MaxHandles
    /\ supabase' = c.supabase
    /\ created' = c.created
    /\ nextTimer' = IF Cardinality(shown.rows) > Cardinality(review_timers)
                    THEN nextTimer + 1 ELSE nextTimer

\* the Generate button: the draft is saved and becomes the session's draft
\* (lines 1244-1262), then the panel is rendered
Generate ==
    \E failSave \in BOOLEAN, failTimer \in BOOLEAN :
        LET c == Client(FALSE)
            r == save_newsletter(c, newsletters,
                                 [user_id |-> UiUser, status |-> "draft"],
                                 failSave, nextId + 1)
            pv == IF r.value = None THEN preview
                  ELSE [preview EXCEPT !.generated_newsletter = TRUE,
                                       !.current_newsletter_id = r.value]
            shown == render_preview(pv, review_timers, wall, failTimer, nextTimer)
        IN /\ nextId < MaxRows
           /\ Rendered(c, shown)
           /\ newsletters' = r.rows
           /\ nextId' = IF r.rows = newsletters THEN nextId ELSE nextId + 1
           /\ review_timers' = shown.rows
           /\ preview' = shown.preview
           /\ UNCHANGED <<SUPABASE_URL, SUPABASE_KEY, user_sources, user_preferences,
                          nextSrc, ret, got, raceVars, schedVars, procVars, uiVars,
                          cadVars, formVars, pureVars, lateVars, wall, timer_hist, timer_ret, tcall>>

\* any other interaction of the session while the draft is shown
Rerun ==
    \E failTimer \in BOOLEAN :
        LET c == Client(FALSE)
            shown == render_preview(preview, review_timers, wall, failTimer,
                                    nextTimer)
        IN /\ preview.generated_newsletter
           /\ Rendered(c, shown)
           /\ review_timers' = shown.rows
           /\ preview' = shown.preview
           /\ UNCHANGED <<SUPABASE_URL, SUPABASE_KEY, tableVars, ret, got, raceVars,
                          schedVars, procVars, uiVars, cadVars, formVars, pureVars, lateVars, wall,
                          timer_hist, timer_ret, tcall>>

\* the Good Draft and Needs Work buttons (lines 1291-1305)
PreviewFeedback ==
    \E reaction \in {"thumbs_up", "thumbs_down"}, failTimer \in BOOLEAN,
       failIns \in BOOLEAN, failUpd \in BOOLEAN :
        LET c == Client(FALSE)
            shown == render_preview(preview, review_timers, wall, failTimer,
                                    nextTimer)
            r == record_feedback(c, newsletters, preview.current_newsletter_id[1],
                                 UiUser, reaction, failIns, failUpd)
        IN /\ preview.generated_newsletter
           /\ preview.current_newsletter_id # None
           /\ Rendered(c, shown)
           /\ review_timers' = shown.rows
           /\ preview' = shown.preview
           /\ newsletters' = r.rows
           /\ UNCHANGED <<SUPABASE_URL, SUPABASE_KEY, user_sources, user_preferences,
                          nextId, nextSrc, ret, got, raceVars, schedVars, procVars,
                          uiVars, cadVars, formVars, pureVars, lateVars, wall, timer_hist, timer_ret,
                          tcall>>

\* the Send Email button (lines 1333-1363). configured: is_email_configured();
\* success: what send_newsletter_email returns.
SendEmail ==
    \E configured \in BOOLEAN, success \in BOOLEAN, failTimer \in BOOLEAN,
       failStop \in BOOLEAN, failUpd \in BOOLEAN :
        LET c == Client(FALSE)
            shown == render_preview(preview, review_timers, wall, failTimer,
                                    nextTimer)
            newsletter_id == preview.current_newsletter_id[1]
        IN /\ preview.generated_newsletter
           /\ preview.current_newsletter_id # None
           /\ Rendered(c, shown)
           /\ IF configured /\ success
              THEN \E first \in FirstListed(shown.rows, newsletter_id, UiUser) :
                     /\ review_timers' =
                           stop_review_timer(shown.rows, newsletter_id, UiUser,
                                             "sent", wall, failStop, first).rows
                     /\ preview' = [shown.preview EXCEPT
                                      !.review_timer_started = FALSE,
                                      !.closed = @ \cup {newsletter_id}]
                     /\ newsletters' = update_newsletter(c, newsletters, newsletter_id,
                                                         "sent", UiUser, failUpd).rows
              ELSE /\ review_timers' = shown.rows
                   /\ preview' = shown.preview
                   /\ UNCHANGED newsletters
           /\ UNCHANGED <<SUPABASE_URL, SUPABASE_KEY, user_sources, user_preferences,
                          nextId, nextSrc, ret, got, raceVars, schedVars, procVars,
                          uiVars, cadVars, formVars, pureVars, lateVars, wall, timer_hist, timer_ret,
                          tcall>>

\* the Clear button (lines 1365-1372): the draft's keys are reset, the timer
\* key is deleted, st.rerun() renders the tab without a preview
Clear ==
    \E failTimer \in BOOLEAN :
        LET c == Client(FALSE)
            shown == render_preview(preview, review_timers, wall, failTimer,
                                    nextTimer)
        IN /\ preview.generated_newsletter
           /\ preview.current_newsletter_id # None
           /\ Rendered(c, shown)
           /\ review_timers' = shown.rows
           /\ preview' = [shown.preview EXCEPT
                            !.generated_newsletter = FALSE,
                            !.current_newsletter_id = None,
                            !.review_timer_started = FALSE,
                            !.closed = @ \cup {preview.current_newsletter_id[1]}]
           /\ UNCHANGED <<SUPABASE_URL, SUPABASE_KEY, tableVars, ret, got, raceVars,
                          schedVars, procVars, uiVars, cadVars, formVars, pureVars, lateVars, wall,
                          timer_hist, timer_ret, tcall>>

PreviewNext ==
    Advance \/ Generate \/ Rerun \/ PreviewFeedback \/ SendEmail \/ Clear

SpecPreview == Init /\ [][PreviewNext]_vars

\* C14: once a draft has been sent successfully or cleared, and after any
\* further rerun, no active review_timers row remains for that newsletter and
\* the user.
C14_TimerClosed ==
    \A id \in preview.closed : active_timers(review_timers, id, UiUser) = {}

\* C15: a newsletter's status changes only from draft to accepted or from
\* draft to sent: sent never becomes accepted, accepted never becomes sent,
\* and thumbs_down leaves the status as it is.
C15_StatusTransitions ==
    [][\A n \in newsletters, m \in newsletters' :
          (m.id = n.id /\ m.status # n.status)
              => (n.status = "draft" /\ m.status \in {"accepted", "sent"})]_vars

\* C29: whenever a saved draft is shown in the preview panel and the panel has
\* rendered, an active review timer exists for the draft's newsletter and the
\* user, also when the draft was generated while an earlier one was still in
\* the session. Drafts already sent or cleared and drafts whose
\* start_review_timer request failed are left out.
C29_ShownDraftHasTimer ==
    (/\ preview.generated_newsletter
     /\ preview.current_newsletter_id # None)
        => \/ preview.current_newsletter_id[1] \in preview.closed
           \/ preview.current_newsletter_id[1] \in preview.start_failed
           \/ active_timers(review_timers, preview.current_newsletter_id[1],
                            UiUser) # {}


\* ------------------------------------ edit ratios (feedback_system.py)
\* Texts are tuples of one-character strings. Ratios are kept as integers:
\* round(x, 2) in hundredths, round(x, 3) in thousandths.
Alphabet == {"a", " "}
Texts == UNION {[1..n -> Alphabet] : n \in 1..MaxText}

\* len(text.split()): the maximal runs of non-blank characters
WordCount(text) ==
    Cardinality({i \in 1..Len(text) :
                   text[i] # " " /\ (i = 1 \/ text[i - 1] = " ")})

Abs(x) == IF x < 0 THEN -x ELSE x
Max(x, y) == IF x >= y THEN x ELSE y

\* round(num / den, digits) as an integer number of 10^-digits, ties to even
Round(num, den, scale) ==
    LET q == (num * scale) \div den
        r == (num * scale) % den
    IN IF 2 * r > den THEN q + 1
       ELSE IF 2 * r = den THEN q + (q % 2)
       ELSE q

\* line 69, in hundredths
diff_edit_ratio(original, edited) ==
    Round(Abs(WordCount(edited) - WordCount(original)),
          Max(WordCount(original), 1), 100)

\* difflib.SequenceMatcher(None, a, b): the longest block common to
\* a[alo..ahi] and b[blo..bhi], the earliest in a and then in b among the
\* longest, and the blocks found the same way to its left and to its right.
\* Matched(...) is the number of characters in those blocks.
Blocks(a, b, alo, ahi, blo, bhi) ==
    {c \in (alo..ahi) \X (blo..bhi) \X (1..Len(a)) :
        /\ c[1] + c[3] - 1 <= ahi
        /\ c[2] + c[3] - 1 <= bhi
        /\ \A d \in 0..(c[3] - 1) : a[c[1] + d] = b[c[2] + d]}

Earlier(c, o) ==
    \/ c[3] > o[3]
    \/ c[3] = o[3] /\ c[1] < o[1]
    \/ c[3] = o[3] /\ c[1] = o[1] /\ c[2] <= o[2]

RECURSIVE Matched(_, _, _, _, _, _)
Matched(a, b, alo, ahi, blo, bhi) ==
    IF Blocks(a, b, alo, ahi, blo, bhi) = {} THEN 0
    ELSE LET all == Blocks(a, b, alo, ahi, blo, bhi)
             best == CHOOSE c \in all : \A o \in all : Earlier(c, o)
         IN best[3]
            + Matched(a, b, alo, best[1] - 1, blo, best[2] - 1)
            + Matched(a, b, best[1] + best[3], ahi, best[2] + best[3], bhi)

\* SequenceMatcher.ratio() = 2.0 * matches / (len(a) + len(b)), as a fraction
Matches(a, b) == Matched(a, b, 1, Len(a), 1, Len(b))

\* line 371, in thousandths
similarity_ratio(original, edited) ==
    Round(2 * Matches(original, edited), Len(original) + Len(edited), 1000)

\* line 372, in thousandths: 1 - similarity, rounded
metrics_edit_ratio(original, edited) ==
    Round(Len(original) + Len(edited) - 2 * Matches(original, edited),
          Len(original) + Len(edited), 1000)

\* record_feedback with both contents supplied attaches the diff summary
CalculateDiffSummary ==
    \E original \in Texts, edited \in Texts :
        /\ edit = NoEdit
        /\ edit' = [fn |-> "calculate_diff_summary", original |-> original,
                    edited |-> edited,
                    edit_ratio |-> diff_edit_ratio(original, edited),
                    similarity_ratio |-> 0]
        /\ UNCHANGED <<storeVars, raceVars, schedVars, procVars, uiVars, cadVars,
                       formVars, lateVars, timerVars, preview, draft, result>>

CalculateEditMetrics ==
    \E original \in Texts, edited \in Texts :
        /\ edit = NoEdit
        /\ edit' = [fn |-> "calculate_edit_metrics", original |-> original,
                    edited |-> edited,
                    edit_ratio |-> metrics_edit_ratio(original, edited),
                    similarity_ratio |-> similarity_ratio(original, edited)]
        /\ UNCHANGED <<storeVars, raceVars, schedVars, procVars, uiVars, cadVars,
                       formVars, lateVars, timerVars, preview, draft, result>>

EditNext == CalculateDiffSummary \/ CalculateEditMetrics

SpecEdits == Init /\ [][EditNext]_vars

\* C16: for every pair of texts the edit_ratio of the diff summary and the
\* edit_ratio and similarity_ratio of calculate_edit_metrics lie in [0, 1].
C16_RatiosInUnitInterval ==
    /\ edit.fn = "calculate_diff_summary"
          => (0 <= edit.edit_ratio /\ edit.edit_ratio <= 100)
    /\ edit.fn = "calculate_edit_metrics"
          => /\ 0 <= edit.edit_ratio /\ edit.edit_ratio <= 1000
             /\ 0 <= edit.similarity_ratio /\ edit.similarity_ratio <= 1000


\* ------------------------------------ newsletter generation (draft_generator.py)
\* An article is [origin, source, summary]: where it was ingested from, the
\* 'source' label that ingestion gives it (content_aggregator.py:42, 430, 471,
\* 619) and its summary as a tuple of sentences.
Origins == {"rss", "handle", "hashtag", "video"}

SourceOf(origin) ==
    CASE origin = "rss" -> "Feed"
      [] origin = "handle" -> "Twitter"
      [] origin = "hashtag" -> "Twitter - #tag"
      [] origin = "video" -> "YouTube"

Article(origin) ==
    [origin |-> origin, source |-> SourceOf(origin),
     summary |-> <<origin, "second", "third">>]

Articles == UNION {[1..n -> {Article(o) : o \in Origins}] : n \in 0..MaxArticles}

\* which LLM calls raise: the summaries of these positions, the intro, the
\* conclusion
Failures ==
    [summary : SUBSET (1..MaxArticles), intro : BOOLEAN, conclusion : BOOLEAN]

Take(seq, n) == SubSeq(seq, 1, IF Len(seq) < n THEN Len(seq) ELSE n)

\* line 89: '. '.join(summary.split('.')[:2]) + '.'
fallback(article) == Take(article.summary, 2)

\* what a successful summary call returns for the article
llm_summary(article) == <<"llm", article.origin>>

is_rss(a) == a.source \notin {"Twitter", "YouTube"}
is_twitter(a) == a.source = "Twitter"
is_youtube(a) == a.source = "YouTube"

\* lines 240-243: the section is built when both lists are non-empty
top_stories(rss_articles, article_summaries) ==
    rss_articles # <<>> /\ article_summaries # <<>>

\* lines 161-192: no LLM call, an empty summaries list
create_template_only_newsletter(rss_articles) ==
    [raised |-> FALSE, llm_calls |-> 0, processed |-> rss_articles,
     summaries |-> <<>>, top_stories |-> top_stories(rss_articles, <<>>)]

\* lines 10-157. The summary calls sit in a try / except (71-90); the intro
\* and conclusion calls (108, 132) do not.
generate_newsletter_with_ai(articles, max_articles, fails) ==
    LET rss_articles == SelectSeq(articles, is_rss)
        articles_to_process == Take(rss_articles, max_articles)
        article_summaries ==
            [i \in 1..Len(articles_to_process) |->
                IF i \in fails.summary THEN fallback(articles_to_process[i])
                ELSE llm_summary(articles_to_process[i])]
    IN IF Len(rss_articles) < 1 THEN create_template_only_newsletter(rss_articles)
       ELSE [raised |-> fails.intro \/ fails.conclusion,
             llm_calls |-> Len(articles_to_process) + 1
                             + (IF fails.intro THEN 0 ELSE 1),
             processed |-> articles_to_process,
             summaries |-> article_summaries,
             top_stories |-> /\ ~(fails.intro \/ fails.conclusion)
                             /\ top_stories(articles_to_process, article_summaries)]

GenerateNewsletter ==
    \E articles \in Articles, max_articles \in 1..MaxArticles, fails \in Failures :
        LET r == generate_newsletter_with_ai(articles, max_articles, fails)
        IN /\ ~draft.called
           /\ draft' = [called |-> TRUE, articles |-> articles,
                        max_articles |-> max_articles, fails |-> fails,
                        raised |-> r.raised, llm_calls |-> r.llm_calls,
                        processed |-> r.processed, summaries |-> r.summaries,
                        top_stories |-> r.top_stories]
           /\ UNCHANGED <<storeVars, raceVars, schedVars, procVars, uiVars, cadVars,
                          formVars, lateVars, timerVars, preview, edit, result>>

DraftNext == GenerateNewsletter

SpecDraft == Init /\ [][DraftNext]_vars

OriginsOf(articles) == {articles[i].origin : i \in 1..Len(articles)}

\* C17: when every article comes from short-form ingestion by handle or by
\* hashtag or from video ingestion, generate_newsletter_with_ai makes no LLM
\* call and its HTML has no "Today's Top Stories" section.
C17_NoRssNoLlm ==
    (draft.called /\ "rss" \notin OriginsOf(draft.articles))
        => (draft.llm_calls = 0 /\ ~draft.raised /\ ~draft.top_stories)

\* C18: with at least one RSS-origin article, a failing LLM call does not
\* abort the generation, and the summaries list has one entry per processed
\* article, in input order, a failed summary being the first two sentences of
\* the article's own summary.
C18_FailuresTolerated ==
    (draft.called /\ "rss" \in OriginsOf(draft.articles))
        => /\ ~draft.raised
           /\ Len(draft.summaries) = Len(draft.processed)
           /\ \A i \in 1..Len(draft.summaries) :
                 draft.summaries[i] =
                     IF i \in draft.fails.summary
                     THEN Take(draft.processed[i].summary, 2)
                     ELSE llm_summary(draft.processed[i])


\* ------------------------------------------- persist the draft, then deliver
NewsletterIds(rows) == {n.id : n \in rows}

\* C21: in both schedulers a send is attempted only for a newsletter whose row
\* the same delivery has just saved for that user; a step in which no draft was
\* saved attempts no send, leaves every last_delivered_at as it was and marks
\* no newsletter sent.
C21_PersistBeforeDeliver ==
    [][/\ \A s \in sends' \ sends :
             /\ s.newsletter_id \notin NewsletterIds(newsletters)
             /\ \E n \in newsletters' :
                    /\ n.id = s.newsletter_id
                    /\ n.user_id = s.user_id
                    /\ n.status \in {"draft", "sent"}
       /\ NewsletterIds(newsletters') = NewsletterIds(newsletters)
             => /\ sends' = sends
                /\ \A r \in scheduled_deliveries, q \in scheduled_deliveries' :
                       r.user_id = q.user_id
                           => q.last_delivered_at = r.last_delivered_at
                /\ \A n \in newsletters, m \in newsletters' :
                       (m.id = n.id /\ m.status = "sent") => n.status = "sent"]_vars

\* a draft was saved, sent and marked sent, and another due user's delivery
\* ended before any send
C21_Witness ==
    /\ \E s \in sends : \E n \in newsletters :
          n.id = s.newsletter_id /\ s.ok /\ n.status = "sent"
    /\ \E u \in tick.finished : \A s \in sends : s.user_id # u


\* ------------------------------ deduplication (content_aggregator.py:87-128)
\* An aggregated article is [title, source, link], each a text; a missing
\* link is the empty text.
Lower(ch) == IF ch = "A" THEN "a" ELSE IF ch = "B" THEN "b" ELSE ch
WordChars == {"a", "b", "c", "d", "e", "f", "g", "A", "B", "_", "1"}
Blank == " "

\* re.sub(r'[^\w\s]', '', title.lower())
RECURSIVE sub_non_word(_)
sub_non_word(text) ==
    IF text = <<>> THEN <<>>
    ELSE (IF Head(text) \in WordChars \cup {Blank} THEN <<Lower(Head(text))>> ELSE <<>>)
         \o sub_non_word(Tail(text))

\* text.split(): the tuple of the maximal runs of non-blank characters
RECURSIVE split(_, _)
split(text, word) ==
    IF text = <<>> THEN (IF word = <<>> THEN <<>> ELSE <<word>>)
    ELSE IF Head(text) = Blank
    THEN (IF word = <<>> THEN <<>> ELSE <<word>>) \o split(Tail(text), <<>>)
    ELSE split(Tail(text), word \o <<Head(text)>>)

\* ' '.join(words)
RECURSIVE join(_)
join(words) ==
    IF words = <<>> THEN <<>>
    ELSE IF Len(words) = 1 THEN words[1]
    ELSE words[1] \o <<Blank>> \o join(Tail(words))

clean_title_for_comparison(title) ==
    join(Take(split(sub_non_word(title), <<>>), 5))

unique_key(article) ==
    IF article.link # <<>> THEN article.link
    ELSE clean_title_for_comparison(article.title) \o <<"|">> \o article.source

\* a pass that drops an article only when it repeats the one just before it
RECURSIVE remove_adjacent_duplicates(_, _)
remove_adjacent_duplicates(articles, seen_keys) ==
    IF articles = <<>> THEN <<>>
    ELSE (IF unique_key(Head(articles)) \in seen_keys THEN <<>>
          ELSE <<Head(articles)>>)
         \o remove_adjacent_duplicates(Tail(articles), {unique_key(Head(articles))})

\* the loop of lines 96-118, seen_keys being the keys met so far
RECURSIVE remove_duplicate_articles(_, _)
remove_duplicate_articles(articles, seen_keys) ==
    IF articles = <<>> THEN <<>>
    ELSE (IF unique_key(Head(articles)) \in seen_keys THEN <<>>
          ELSE <<Head(articles)>>)
         \o remove_duplicate_articles(Tail(articles),
                                      seen_keys \cup {unique_key(Head(articles))})

SixWords == <<"a", " ", "b", " ", "c", " ", "d", " ", "e", " ", "f">>
SixWordsToo == <<"A", " ", "b", "!", " ", " ", "c", " ", "d", " ", "e", " ", "g">>
Entry(title, source, link) == [title |-> title, source |-> source, link |-> link]
\* two articles without a link whose titles agree on their first five cleaned
\* words, the same title from another source, two articles sharing a link, and
\* a link that reads like another article's title and source
Aggregated ==
    {Entry(SixWords, <<"S">>, <<>>), Entry(SixWordsToo, <<"S">>, <<>>),
     Entry(SixWords, <<"T">>, <<>>), Entry(<<"a">>, <<"S">>, <<"u">>),
     Entry(SixWords, <<"S">>, <<"u">>), Entry(<<"a", "!">>, <<"S">>, <<>>),
     Entry(<<"b">>, <<"T">>, <<"a", "|", "S">>)}
ArticleLists == UNION {[1..n -> Aggregated] : n \in 0..MaxList}

RemoveDuplicates ==
    \E articles \in ArticleLists :
        LET unique_articles == remove_duplicate_articles(articles, {})
        IN /\ result = NoResult
           /\ result' = [fn |-> "remove_duplicate_articles", articles |-> articles,
                         unique_articles |-> unique_articles,
                         again |-> remove_duplicate_articles(unique_articles, {})]
           /\ UNCHANGED <<storeVars, raceVars, schedVars, procVars, uiVars, cadVars,
                          formVars, lateVars, timerVars, preview, edit, draft>>

DedupNext == RemoveDuplicates

SpecDedup == Init /\ [][DedupNext]_vars

\* the articles of L whose key no earlier article of L has, in L's order
RECURSIVE FirstOccurrences(_, _)
FirstOccurrences(L, i) ==
    IF i > Len(L) THEN <<>>
    ELSE (IF \E j \in 1..(i - 1) : unique_key(L[j]) = unique_key(L[i]) THEN <<>>
          ELSE <<L[i]>>)
         \o FirstOccurrences(L, i + 1)

\* C22: remove_duplicate_articles is idempotent, keeps the first occurrence of
\* each key in input order, and its output has pairwise distinct keys.
C22_DedupIdempotent ==
    result.fn = "remove_duplicate_articles" =>
        /\ result.again = result.unique_articles
        /\ result.unique_articles = FirstOccurrences(result.articles, 1)
        /\ \A i, j \in 1..Len(result.unique_articles) :
              unique_key(result.unique_articles[i]) = unique_key(result.unique_articles[j])
                  => i = j

\* a list of three whose third article repeats the key of the first, by a
\* title that differs only in case, punctuation, spacing and its sixth word
C22_Witness ==
    /\ result.fn = "remove_duplicate_articles"
    /\ Len(result.articles) = 3
    /\ Len(result.unique_articles) = 2
    /\ result.articles[1].link = <<>>
    /\ result.articles[3].link = <<>>
    /\ result.articles[1].title = SixWords
    /\ result.articles[3].title = SixWordsToo
    /\ unique_key(result.articles[2]) # unique_key(result.articles[1])


\* ------------------------------------ trends (content_aggregator.py:130-178)
\* The titles and summaries of the articles, joined and lower-cased, are given
\* as the tuple of their words; a word is the tuple of its letters.
App == <<"a", "p", "p">>
Data == <<"d", "a", "t", "a">>
Tool == <<"t", "o", "o", "l">>
The == <<"t", "h", "e">>
Ai == <<"a", "i">>
Vocabulary == {App, Data, Tool, The, Ai}
stop_words == {The}
WordLists == UNION {[1..n -> Vocabulary] : n \in 0..MaxWords}

\* re.findall(r'\b[a-zA-Z]{3,}\b', text), without the stop words
filtered_words(words) ==
    SelectSeq(words, LAMBDA w : Len(w) >= 3 /\ w \notin stop_words)

\* Counter(filtered_words)[w]
CountOf(words, w) == Cardinality({i \in 1..Len(words) : words[i] = w})

\* Counter.most_common(n): by count, the largest first, equal counts in the
\* order the words were first met
FirstMet(words, w) == CHOOSE i \in 1..Len(words) : words[i] = w /\ \A j \in 1..(i - 1) : words[j] # w

RECURSIVE most_common(_, _, _)
most_common(words, left, n) ==
    IF n = 0 \/ left = {} THEN <<>>
    ELSE LET top == CHOOSE w \in left : \A o \in left :
                       \/ CountOf(words, w) > CountOf(words, o)
                       \/ /\ CountOf(words, w) = CountOf(words, o)
                          /\ FirstMet(words, w) <= FirstMet(words, o)
         IN <<[keyword |-> top, frequency |-> CountOf(words, top)]>>
            \o most_common(words, left \ {top}, n - 1)

Range(seq) == {seq[i] : i \in 1..Len(seq)}

\* lines 142-157: the max_trends most common keywords are taken first and the
\* test on length and count is applied to those
extract_trends(words, max_trends) ==
    LET keywords == filtered_words(words)
    IN SelectSeq(most_common(keywords, Range(keywords), max_trends),
                 LAMBDA k : Len(k.keyword) > 3 /\ k.frequency > 1)

ExtractTrends ==
    \E words \in WordLists, max_trends \in 1..MaxTrends :
        /\ result = NoResult
        /\ result' = [fn |-> "extract_trends", words |-> words,
                      max_trends |-> max_trends,
                      trends |-> extract_trends(words, max_trends)]
        /\ UNCHANGED <<storeVars, raceVars, schedVars, procVars, uiVars, cadVars,
                       formVars, lateVars, timerVars, preview, edit, draft>>

TrendNext == ExtractTrends

SpecTrends == Init /\ [][TrendNext]_vars

\* the keywords of length > 3 and count > 1
Qualifying(words) ==
    {w \in Range(filtered_words(words)) :
        Len(w) > 3 /\ CountOf(filtered_words(words), w) > 1}

Min(x, y) == IF x <= y THEN x ELSE y

\* C23: extract_trends returns min(max_trends, number of qualifying keywords)
\* trends, the most frequent qualifying keywords in non-increasing frequency
\* order, and never a keyword of length <= 3 or of count 1.
C23_TopQualifyingTrends ==
    result.fn = "extract_trends" =>
        LET trends == result.trends
            qualifying == Qualifying(result.words)
        IN /\ Len(trends) = Min(result.max_trends, Cardinality(qualifying))
           /\ \A i \in 1..Len(trends) :
                 /\ trends[i].keyword \in qualifying
                 /\ \A w \in qualifying \ {trends[j].keyword : j \in 1..Len(trends)} :
                       CountOf(result.words, w) <= trends[i].frequency
           /\ \A i, j \in 1..Len(trends) :
                 i < j => trends[i].frequency >= trends[j].frequency


\* --------------------------- Twitter threads (social_media_generator.py)
\* thread_text is given as the tuple of its lines (thread_text.split('\n')),
\* each line the tuple of its characters.
max_length == 280        \* truncate_tweet's max_length
PostLimit == 6            \* tweets[:6]

Repeat(ch, n) == [i \in 1..n |-> ch]

\* the length of the digits a text starts with
RECURSIVE LeadingDigits(_)
LeadingDigits(text) ==
    IF text # <<>> /\ Head(text) \in DigitChars THEN 1 + LeadingDigits(Tail(text))
    ELSE 0

Drop(text, n) == SubSeq(text, n + 1, Len(text))
StartsWith(text, prefix) ==
    Len(text) >= Len(prefix) /\ SubSeq(text, 1, Len(prefix)) = prefix

TweetWord == <<"T", "w", "e", "e", "t", " ">>

\* re.match(r'\d+[/\.]', line)
matches_number(line) ==
    LET d == LeadingDigits(line)
    IN d >= 1 /\ Len(line) > d /\ line[d + 1] \in {"/", "."}

\* re.match(r'Tweet \d+:', line)
matches_label(line) ==
    /\ StartsWith(line, TweetWord)
    /\ LET rest == Drop(line, Len(TweetWord))
           d == LeadingDigits(rest)
       IN d >= 1 /\ Len(rest) > d /\ rest[d + 1] = ":"

\* re.sub(r'^\d+[/\.\)]\s*', '', line)
sub_number(line) ==
    LET d == LeadingDigits(line)
    IN IF d >= 1 /\ Len(line) > d /\ line[d + 1] \in {"/", ".", ")"}
       THEN lstrip(Drop(line, d + 1), {" "})
       ELSE line

\* re.sub(r'^Tweet \d+:\s*', '', line)
sub_label(line) ==
    IF matches_label(line)
    THEN lstrip(Drop(line, Len(TweetWord) + LeadingDigits(Drop(line, Len(TweetWord))) + 1),
                {" "})
    ELSE line

\* the loop of lines 226-246 over the remaining lines
RECURSIVE parse_lines(_, _, _)
parse_lines(lines, tweets, current_tweet) ==
    IF lines = <<>>
    THEN IF current_tweet # <<>> THEN Append(tweets, strip(current_tweet)) ELSE tweets
    ELSE LET line == strip(Head(lines))
             is_new_tweet == matches_number(line) \/ matches_label(line)
             body == IF is_new_tweet THEN sub_label(sub_number(line)) ELSE line
         IN IF line = <<>> THEN parse_lines(Tail(lines), tweets, current_tweet)
            ELSE IF is_new_tweet /\ current_tweet # <<>>
            THEN parse_lines(Tail(lines), Append(tweets, strip(current_tweet)), body)
            ELSE parse_lines(Tail(lines), tweets, current_tweet \o <<" ">> \o body)

\* thread_text.split('\n\n'), stripped, without the empty pieces: the runs of
\* lines between two empty lines, joined by a newline
RECURSIVE paragraphs(_, _)
paragraphs(lines, piece) ==
    LET done == IF strip(piece) = <<>> THEN <<>> ELSE <<strip(piece)>>
    IN IF lines = <<>> THEN done
       ELSE IF Head(lines) = <<>> THEN done \o paragraphs(Tail(lines), <<>>)
       ELSE paragraphs(Tail(lines),
                       IF piece = <<>> THEN Head(lines)
                       ELSE piece \o <<"\n">> \o Head(lines))

parse_twitter_thread(lines) ==
    LET tweets == parse_lines(lines, <<>>, <<>>)
    IN Take(IF Len(tweets) = 0 THEN paragraphs(lines, <<>>) ELSE tweets, PostLimit)

\* an ellipsis put after the first max_length characters
truncate_after_limit(tweet) ==
    IF Len(tweet) <= max_length THEN tweet
    ELSE SubSeq(tweet, 1, max_length) \o <<".", ".", ".">>

truncate_tweet(tweet) ==
    IF Len(tweet) <= max_length THEN tweet
    ELSE SubSeq(tweet, 1, max_length - 3) \o <<".", ".", ".">>

\* the lines the LLM's answer is made of: a numbered tweet, a labelled tweet,
\* a long line that continues the tweet before it, and a line of blanks
Numbered == <<"1", "/", " ", "h", "i">>
Labelled == <<"T", "w", "e", "e", "t", " ", "2", ":", " ">> \o Repeat("z", 281)
Continued == Repeat("y", 150)
Blanks == <<" ", " ">>
ThreadTexts ==
    UNION {[1..n -> {Numbered, Labelled, Continued}] : n \in 0..MaxLines}
    \cup {<<Blanks>>, <<Numbered, Blanks, Continued>>, <<Continued, <<>>, Continued>>}

GenerateTwitterThread ==
    \E thread_text \in ThreadTexts :
        LET tweets == parse_twitter_thread(thread_text)
        IN /\ result = NoResult
           /\ result' = [fn |-> "generate_twitter_thread", thread_text |-> thread_text,
                         parsed |-> tweets,
                         posts |-> [i \in 1..Len(tweets) |-> truncate_tweet(tweets[i])]]
           /\ UNCHANGED <<storeVars, raceVars, schedVars, procVars, uiVars, cadVars,
                          formVars, lateVars, timerVars, preview, edit, draft>>

ThreadNext == GenerateTwitterThread

SpecThread == Init /\ [][ThreadNext]_vars

\* C24: generate_twitter_thread returns at most 6 posts, each of at most 280
\* characters; a parsed post longer than 280 characters has become its first
\* 277 characters followed by "...".
C24_ThreadWithinLimits ==
    result.fn = "generate_twitter_thread" =>
        /\ Len(result.posts) <= 6
        /\ Len(result.posts) = Len(result.parsed)
        /\ \A i \in 1..Len(result.posts) :
              /\ Len(result.posts[i]) <= 280
              /\ Len(result.parsed[i]) > 280
                    => result.posts[i] = SubSeq(result.parsed[i], 1, 277) \o <<".", ".", ".">>
              /\ Len(result.parsed[i]) <= 280 => result.posts[i] = result.parsed[i]

\* an answer of seven tweets of which one is longer than 280 characters
C24_Witness ==
    /\ result.fn = "generate_twitter_thread"
    /\ Len(parse_lines(result.thread_text, <<>>, <<>>)) = 7
    /\ Len(result.posts) = 6
    /\ \E i \in 1..6 : Len(result.parsed[i]) > 280 /\ Len(result.posts[i]) = 280


\* ------------------- engagement analytics (feedback_system.py:145-205)
\* metrics: the newsletter_metrics rows of the user's newsletters of the
\* window, in the order the backend returns them; fail: a backend call raises.
MetricTypes == {"open_rate", "click_rate"}
MetricValues == {10, 50}
MetricRows == [metric_type : MetricTypes, value : MetricValues]
MetricLists == UNION {[1..n -> MetricRows] : n \in 0..MaxMetrics}

RECURSIVE Sum(_)
Sum(values) == IF values = <<>> THEN 0 ELSE Head(values) + Sum(Tail(values))

\* values[-3:] and values[:-3]
LastThree(values) == SubSeq(values, Max(Len(values) - 2, 1), Len(values))
ButLastThree(values) == SubSeq(values, 1, Max(Len(values) - 3, 0))

\* lines 188-196; the averages are compared as fractions:
\* recent_avg > older_avg * 1.1 and recent_avg < older_avg * 0.9
trend_of(open_rates) ==
    LET recent == LastThree(open_rates)
        older == IF Len(open_rates) > 3 THEN ButLastThree(open_rates) ELSE recent
    IN IF Len(open_rates) >= 2
       THEN IF 10 * Sum(recent) * Len(older) > 11 * Sum(older) * Len(recent)
            THEN "improving"
            ELSE IF 10 * Sum(recent) * Len(older) < 9 * Sum(older) * Len(recent)
            THEN "declining"
            ELSE "stable"
       ELSE "stable"

OpenRates(metrics) ==
    LET rows == SelectSeq(metrics, LAMBDA m : m.metric_type = "open_rate")
    IN [i \in 1..Len(rows) |-> rows[i].value]

\* the trend of the returned dict; "absent" for the {} of the except branch
get_engagement_analytics(has_newsletters, metrics, fail) ==
    IF fail THEN "absent"
    ELSE IF ~has_newsletters THEN "no_data"
    ELSE IF metrics = <<>> THEN "no_data"
    ELSE trend_of(OpenRates(metrics))

GetEngagementAnalytics ==
    \E has_newsletters \in BOOLEAN, metrics \in MetricLists, fail \in BOOLEAN :
        /\ result = NoResult
        /\ result' = [fn |-> "get_engagement_analytics",
                      has_newsletters |-> has_newsletters,
                      metrics |-> IF has_newsletters THEN metrics ELSE <<>>,
                      failed |-> fail,
                      trend |-> get_engagement_analytics(has_newsletters, metrics, fail)]
        /\ UNCHANGED <<storeVars, raceVars, schedVars, procVars, uiVars, cadVars,
                       formVars, lateVars, timerVars, preview, edit, draft>>

AnalyticsNext == GetEngagementAnalytics

SpecAnalytics == Init /\ [][AnalyticsNext]_vars

\* C25: get_engagement_analytics returns trend "no_data" whenever fewer than 2
\* open_rate samples exist, and "improving", "declining" or "stable" only when
\* at least 2 exist.
C25_TrendNeedsTwoSamples ==
    (result.fn = "get_engagement_analytics" /\ ~result.failed) =>
        /\ Len(OpenRates(result.metrics)) < 2 => result.trend = "no_data"
        /\ result.trend \in {"improving", "declining", "stable"}
              => Len(OpenRates(result.metrics)) >= 2


\* ------------------------- the scheduler threads' shared job list (app.py)
\* Every background_scheduler thread registers its own check_and_send_scheduled
\* with the schedule module's default scheduler (line 304), which is one list
\* for the process; schedule.run_pending() of any thread (line 308) runs every
\* job of that list that is due. One active row is due in minute DueMinute.
DueMinute == 1

\* schedule.every(1).minutes.do(check_and_send_scheduled) of a started thread
RegisterJob ==
    \E t \in scheduler_threads :
        /\ \A j \in shared.jobs : j.thread # t.no
        /\ shared' = [shared EXCEPT
                        !.jobs = @ \cup {[thread |-> t.no,
                                          next_run |-> shared.now + Period]}]
        /\ UNCHANGED <<storeVars, raceVars, schedVars, procVars, uiVars, cadVars,
                       formVars, pureVars, timerVars, preview, principal, editor>>

\* schedule.run_pending() of one thread: every due job runs its due-check,
\* which generates and delivers when the minute it reads is the row's, and is
\* rescheduled one period later
SharedRunPending ==
    \E t \in scheduler_threads :
        LET due == {j \in shared.jobs : shared.now >= j.next_run}
        IN /\ \E j \in shared.jobs : j.thread = t.no
           /\ due # {}
           /\ shared' = [shared EXCEPT
                           !.jobs = (@ \ due) \cup
                                    {[j EXCEPT !.next_run = shared.now + Period] :
                                        j \in due},
                           !.delivered =
                               IF Minute(shared.now) = DueMinute
                               THEN @ \cup {[job |-> j.thread, at |-> shared.now,
                                            by |-> t.no] : j \in due}
                               ELSE @]
           /\ UNCHANGED <<storeVars, raceVars, schedVars, procVars, uiVars, cadVars,
                          formVars, pureVars, timerVars, preview, principal, editor>>

\* time.sleep(30): the wall clock between two polls
TimePasses ==
    /\ shared.now + SleepSeconds <= MaxClock
    /\ shared' = [shared EXCEPT !.now = @ + SleepSeconds]
    /\ UNCHANGED <<storeVars, raceVars, schedVars, procVars, uiVars, cadVars,
                   formVars, pureVars, timerVars, preview, principal, editor>>

SharedNext == RunMain \/ RegisterJob \/ SharedRunPending \/ TimePasses

SpecShared == Init /\ [][SharedNext]_vars

\* C26: for one active row and the wall-clock minute equal to its
\* schedule_time the dashboard process generates and delivers at most one
\* newsletter, however many sessions have run main().
C26_OneDeliveryPerMinute ==
    Cardinality({d \in shared.delivered : Minute(d.at) = DueMinute}) <= 1


\* --------------------------------------------------- schedules and timezones
\* C27: a schedule fires when the current time in the row's own timezone
\* equals its schedule_time, so two active schedules with the same
\* schedule_time and different timezones never fire in the same due-check.
C27_FiresInRowTimezone ==
    \A u, v \in tick.triggered :
        (/\ HasRow(u) /\ HasRow(v)
         /\ Take5(RowOf(u).schedule_time) = Take5(RowOf(v).schedule_time))
            => RowOf(u).timezone = RowOf(v).timezone


\* ----------------------------------------- the shared auth handle (auth.py)
\* auth.py keeps one handle for the process (line 5); sign_in and sign_out set
\* and clear the auth session of that handle, and get_current_user reads it.
\* principal is the user of that auth session, NoUser when there is none.
sign_in(held, u, ok) == IF ok THEN u ELSE held
sign_out(held, ok) == IF ok THEN NoUser ELSE held
get_current_user(held) == held

\* the sign-in form of session s with valid fields (app.py:625-631)
AuthSignIn ==
    \E s \in Sessions, u \in Users, ok \in BOOLEAN :
        /\ session_state[s].attached
        /\ session_state[s].user = NoUser
        /\ principal' = sign_in(principal, u, ok)
        /\ IF ok
           THEN Ran(s, main([session_state[s] EXCEPT !.user = u], scheduler_threads, s))
           ELSE UNCHANGED procVars
        /\ UNCHANGED <<storeVars, raceVars, schedVars, uiVars, cadVars, formVars,
                       timerVars, preview, pureVars, shared, editor>>

\* the Logout button of session s (app.py:755-758)
AuthSignOut ==
    \E s \in Sessions, ok \in BOOLEAN :
        /\ session_state[s].user # NoUser
        /\ principal' = sign_out(principal, ok)
        /\ Ran(s, main([session_state[s] EXCEPT !.keys = {}], scheduler_threads, s))
        /\ UNCHANGED <<storeVars, raceVars, schedVars, uiVars, cadVars, formVars,
                       timerVars, preview, pureVars, shared, editor>>

AuthNext == RunMain \/ AuthSignIn \/ AuthSignOut

SpecAuth == Init /\ [][AuthNext]_vars

\* C28: a sign_in or sign_out performed in one session does not change the
\* principal get_current_user returns for another signed-in session, nor the
\* backend session its queries run under.
C28_SessionsIsolated ==
    [][\A t \in Sessions :
          (session_state[t].user # NoUser /\ session_state'[t] = session_state[t])
              => get_current_user(principal') = get_current_user(principal)]_vars


\* ------------------------------------- editing the draft (app.py:1420-1466)
\* editor.session is st.session_state.generated_newsletter, editor.stored the
\* content column of the draft's newsletters row, editor.edits the number of
\* edit_history rows, editor.delivered the html_content last sent from the
\* preview panel and from the dashboard card.
Contents == {t \in Texts : Len(t) <= 2}

\* Generate: the draft is saved and becomes the session's text (1244-1262)
EditorGenerate ==
    \E content \in Contents, failSave \in BOOLEAN :
        /\ editor.session = None
        /\ editor' = IF failSave THEN editor
                     ELSE [editor EXCEPT !.stored = Some(content),
                                         !.session = Some(content)]
        /\ UNCHANGED <<storeVars, raceVars, schedVars, procVars, uiVars, cadVars,
                       formVars, pureVars, timerVars, preview, shared, principal>>

\* save_edit_history inserts into edit_history only (feedback_system.py:316-341)
save_edit_history(ed, fail) ==
    IF fail THEN ed
    ELSE [ed EXCEPT !.edits = @ + 1]

\* the Save Edits button (1449-1466): the history row is written and the
\* session's text replaced; the newsletters row is not written
save_edits(ed, edited, fail) ==
    [save_edit_history(ed, fail) EXCEPT !.session = Some(edited)]

SaveEdits ==
    \E edited \in Contents, fail \in BOOLEAN :
        /\ editor.session # None
        /\ editor.edits < MaxEdits
        /\ editor' = save_edits(editor, edited, fail)
        /\ UNCHANGED <<storeVars, raceVars, schedVars, procVars, uiVars, cadVars,
                       formVars, pureVars, timerVars, preview, shared, principal>>

\* Send Email in the preview panel sends the session's text (1341-1345)
SendFromPreview ==
    \E success \in BOOLEAN :
        /\ editor.session # None
        /\ editor' = IF success
                     THEN [editor EXCEPT !.delivered.preview = editor.session]
                     ELSE editor
        /\ UNCHANGED <<storeVars, raceVars, schedVars, procVars, uiVars, cadVars,
                       formVars, pureVars, timerVars, preview, shared, principal>>

\* Send on the dashboard card sends the row's content (1084-1096)
SendFromDashboard ==
    \E success \in BOOLEAN :
        /\ editor.stored # None
        /\ editor' = IF success
                     THEN [editor EXCEPT !.delivered.dashboard = editor.stored]
                     ELSE editor
        /\ UNCHANGED <<storeVars, raceVars, schedVars, procVars, uiVars, cadVars,
                       formVars, pureVars, timerVars, preview, shared, principal>>

EditorNext == EditorGenerate \/ SaveEdits \/ SendFromPreview \/ SendFromDashboard

SpecEditor == Init /\ [][EditorNext]_vars

\* C30: after Save Edits the content of the stored newsletters row equals the
\* edited text held in the session, so a Send from the dashboard delivers the
\* text a Send from the preview panel delivers.
C30_StoredEqualsEdited ==
    [][(editor.session # None /\ editor'.session # editor.session)
          => editor'.stored = editor'.session]_vars

====
